---- MODULE Spec2Model ----
(***************************************************************************)
(* Authentication / authorization middleware chain and the central error   *)
(* translator of the blogging backend (server/src).                        *)
(*                                                                         *)
(* JavaScript values are encoded uniformly so that TLC never compares      *)
(* values of different shapes: undefined / null strings are "", undefined  *)
(* numbers are 0, an unset req.user is NoUser.                             *)
(***************************************************************************)
EXTENDS Integers, Sequences, FiniteSets, TLC

\* Upper bound on the number of posts created in one behaviour.
MaxPosts == 1

\* ------------------------------------------------------------------------
\* Configuration constants of the token service
\* ------------------------------------------------------------------------
Issuer == "mern-testing-app"
Audience == "mern-testing-users"
BearerPrefix == "Bearer "

\* ------------------------------------------------------------------------
\* The user collection
\* ------------------------------------------------------------------------
UserIds == {"u1", "a1"}

\* Route parameter values: the ids of the two accounts and an id that
\* belongs to nobody.
ParamIds == {"u1", "a1", "zz"}

NoUser == [_id |-> "", role |-> "", isActive |-> FALSE]

\* users[i] is the stored document with _id i; exists = FALSE when no
\* document has that id.  password is "old" until change-password stores a
\* new one.
InitUsers ==
    [i \in UserIds |->
        [exists |-> TRUE,
         role |-> IF i = "a1" THEN "admin" ELSE "user",
         isActive |-> TRUE,
         password |-> "old"]]

\* User.findById(id).select('-password'): the document, or NoUser for null.
findById(us, id) ==
    IF id \in UserIds /\ us[id].exists
    THEN [_id |-> id, role |-> us[id].role, isActive |-> us[id].isActive]
    ELSE NoUser

\* Email address of the accounts of the initial collection; their username
\* is their id.
EmailOf(i) == i \o "@x.io"

\* String.prototype.toLowerCase on the strings the requests carry.
toLowerCase(str) == CASE str = "N1@X.IO" -> "n1@x.io" [] OTHER -> str

\* The stored user documents as the queries of the auth routes read them.
Docs(us, accts) ==
    {[email |-> EmailOf(i), username |-> i, password |-> us[i].password,
      isActive |-> us[i].isActive] : i \in {j \in UserIds : us[j].exists}}
    \cup {accts[k] : k \in DOMAIN accts}

\* User.findOne({$or: [{email}, {username}]}): the documents the query
\* matches; findOne returns one of them, or null when there is none.
Matching(us, accts, email, username) ==
    {d \in Docs(us, accts) : d.email = email \/ d.username = username}

\* The unique indexes on email and username: the fields of doc whose value
\* a stored document already has.
DuplicateKeys(us, accts, doc) ==
    {f \in {"email", "username"} :
        \E d \in Docs(us, accts) :
            \/ f = "email" /\ d.email = doc.email
            \/ f = "username" /\ d.username = doc.username}

\* ------------------------------------------------------------------------
\* Token service
\* ------------------------------------------------------------------------
\* A token string is described by what jwt.verify looks at: whether it is
\* the empty string, whether it parses as a JWT, its payload claims, whether
\* the signature matches JWT_SECRET, and whether exp has passed.
EmptyToken ==
    [text |-> "", id |-> "", username |-> "", email |-> "", role |-> "",
     sigOk |-> FALSE, expired |-> FALSE, iss |-> "", aud |-> ""]

\* user[f], '' when the object has no property f.
Field(user, f) == IF f \in DOMAIN user THEN user[f] ELSE ""

\* The JSON form of an id in the payload jwt.sign serialises: the hex string
\* of an ObjectId, a string as it is.
toHexString(v) ==
    CASE v = "ObjectId(64b0)" -> "64b0"
      [] v = "ObjectId(64b1)" -> "64b1"
      [] OTHER -> v

\* generateToken signing the payload without username and email
generateToken_IdAndRole(user) ==
    [text |-> "jwt",
     id |-> toHexString(IF Field(user, "_id") # "" THEN user._id
                        ELSE Field(user, "id")),
     username |-> "",
     email |-> "",
     role |-> user.role, sigOk |-> TRUE,
     expired |-> FALSE, iss |-> Issuer, aud |-> Audience]

generateToken(user) ==
    [text |-> "jwt",
     id |-> toHexString(IF Field(user, "_id") # "" THEN user._id
                        ELSE Field(user, "id")),
     username |-> Field(user, "username"),
     email |-> Field(user, "email"),
     role |-> user.role, sigOk |-> TRUE,
     expired |-> FALSE, iss |-> Issuer, aud |-> Audience]

\* verifyToken without the audience option
verifyToken_AnyAudience(token) ==
    IF /\ token.text = "jwt"
       /\ token.sigOk
       /\ ~token.expired
       /\ token.iss = Issuer
    THEN [ok |-> TRUE, id |-> token.id, username |-> token.username,
          email |-> token.email, role |-> token.role, message |-> ""]
    ELSE [ok |-> FALSE, id |-> "", username |-> "", email |-> "", role |-> "",
          message |-> "Invalid token"]

\* Result of jwt.verify wrapped by verifyToken: ok with the decoded claims,
\* or the single failure 'Invalid token'.
verifyToken(token) ==
    IF /\ token.text = "jwt"
       /\ token.sigOk
       /\ ~token.expired
       /\ token.iss = Issuer
       /\ token.aud = Audience
    THEN [ok |-> TRUE, id |-> token.id, username |-> token.username,
          email |-> token.email, role |-> token.role, message |-> ""]
    ELSE [ok |-> FALSE, id |-> "", username |-> "", email |-> "", role |-> "",
          message |-> "Invalid token"]

\* A header value is prefix \o rest; present = FALSE when the request has no
\* Authorization header.  The empty token stands for the empty string.
NoHeader == [present |-> FALSE, prefix |-> "", rest |-> EmptyToken]

Header(prefix, token) == [present |-> TRUE, prefix |-> prefix, rest |-> token]

\* extractToken without the test of the scheme marker
extractToken_AnyScheme(h) == IF h.present THEN h.rest ELSE EmptyToken

\* extractToken: the substring after 'Bearer ', or null (EmptyToken, which is
\* falsy like null).
extractToken(h) ==
    IF h.present /\ h.prefix = BearerPrefix THEN h.rest ELSE EmptyToken

\* `token` used as a condition: null and '' are falsy.
Truthy(token) == token.text # ""

\* ------------------------------------------------------------------------
\* Identity resolver
\* ------------------------------------------------------------------------
\* getUserFromToken without the test of the active flag
getUserFromToken_NoActiveCheck(token, us) ==
    LET decoded == verifyToken(token)
        user == findById(us, decoded.id)
    IN  IF ~decoded.ok
        THEN [ok |-> FALSE, user |-> NoUser, message |-> decoded.message]
        ELSE IF user = NoUser
        THEN [ok |-> FALSE, user |-> NoUser, message |-> "User not found"]
        ELSE [ok |-> TRUE, user |-> user, message |-> ""]

\* getUserFromToken answering from the claims of the token, without reading
\* the collection
getUserFromToken_FromClaims(token, us) ==
    LET decoded == verifyToken(token)
    IN  IF ~decoded.ok
        THEN [ok |-> FALSE, user |-> NoUser, message |-> decoded.message]
        ELSE [ok |-> TRUE,
              user |-> [_id |-> decoded.id, role |-> decoded.role,
                        isActive |-> TRUE],
              message |-> ""]

\* getUserFromToken: ok with the stored record, or the thrown error message.
getUserFromToken(token, us) ==
    LET decoded == verifyToken(token)
        user == findById(us, decoded.id)
    IN  IF ~decoded.ok
        THEN [ok |-> FALSE, user |-> NoUser, message |-> decoded.message]
        ELSE IF user = NoUser
        THEN [ok |-> FALSE, user |-> NoUser, message |-> "User not found"]
        ELSE IF ~user.isActive
        THEN [ok |-> FALSE, user |-> NoUser,
              message |-> "User account is deactivated"]
        ELSE [ok |-> TRUE, user |-> user, message |-> ""]

\* ------------------------------------------------------------------------
\* Responses
\* ------------------------------------------------------------------------
\* code is the HTTP status; fields is the set of keys of the JSON body; the
\* remaining fields are the values of the keys the properties talk about.
GateBody(code, error, message) ==
    [code |-> code, fields |-> {"error", "message"}, error |-> error,
     message |-> message, status |-> 0, path |-> "", method |-> "",
     details |-> ""]

OkBody(code, message) ==
    [code |-> code, fields |-> {"message"}, error |-> "",
     message |-> message, status |-> 0, path |-> "", method |-> "",
     details |-> ""]

\* The outcome of one gate: next = TRUE when the gate calls next(), user is
\* req.user afterwards, res is the body sent when it halts.
Continue(user) == [next |-> TRUE, user |-> user, res |-> OkBody(0, "")]

Halt(user, res) == [next |-> FALSE, user |-> user, res |-> res]

\* ------------------------------------------------------------------------
\* Authorization middleware chain
\* ------------------------------------------------------------------------
\* auth answering every resolution failure with 401
auth_Always401(h, reqUser, us) ==
    LET token == extractToken(h)
        r == getUserFromToken(token, us)
    IN  IF ~Truthy(token)
        THEN Halt(reqUser, GateBody(401, "Access denied", "No token provided"))
        ELSE IF r.ok
        THEN Continue(r.user)
        ELSE IF r.message = "User not found"
        THEN Halt(reqUser, GateBody(401, "Authentication failed", "User not found"))
        ELSE Halt(reqUser, GateBody(401, "Authentication failed", "Invalid token"))

auth(h, reqUser, us) ==
    LET token == extractToken(h)
        r == getUserFromToken(token, us)
    IN  IF ~Truthy(token)
        THEN Halt(reqUser, GateBody(401, "Access denied", "No token provided"))
        ELSE IF r.ok
        THEN Continue(r.user)
        ELSE IF r.message = "User not found"
        THEN Halt(reqUser, GateBody(401, "Authentication failed", "User not found"))
        ELSE IF r.message = "User account is deactivated"
        THEN Halt(reqUser, GateBody(403, "Authentication failed", "Account deactivated"))
        ELSE Halt(reqUser, GateBody(401, "Authentication failed", "Invalid token"))

\* optionalAuth surfacing a resolution failure like auth does
optionalAuth_Surfacing(h, reqUser, us) ==
    LET token == extractToken(h)
        r == getUserFromToken(token, us)
    IN  IF Truthy(token) /\ ~r.ok
        THEN Halt(reqUser, GateBody(401, "Authentication failed", "Invalid token"))
        ELSE IF Truthy(token) THEN Continue(r.user) ELSE Continue(reqUser)

optionalAuth(h, reqUser, us) ==
    LET token == extractToken(h)
        r == getUserFromToken(token, us)
    IN  IF Truthy(token) /\ r.ok THEN Continue(r.user) ELSE Continue(reqUser)

\* requireAdmin detaching the identity it refuses
requireAdmin_ClearsIdentity(reqUser) ==
    IF reqUser = NoUser
    THEN Halt(reqUser, GateBody(401, "Access denied", "Authentication required"))
    ELSE IF reqUser.role # "admin"
    THEN Halt(NoUser, GateBody(403, "Access denied", "Admin privileges required"))
    ELSE Continue(reqUser)

requireAdmin(reqUser) ==
    IF reqUser = NoUser
    THEN Halt(reqUser, GateBody(401, "Access denied", "Authentication required"))
    ELSE IF reqUser.role # "admin"
    THEN Halt(reqUser, GateBody(403, "Access denied", "Admin privileges required"))
    ELSE Continue(reqUser)

\* requireOwnership without the admin bypass
requireOwnership_NoBypass(userIdField, reqUser, param) ==
    IF reqUser = NoUser
    THEN Halt(reqUser, GateBody(401, "Access denied", "Authentication required"))
    ELSE IF userIdField \in {"userId", "_id"} /\ reqUser._id # param
    THEN Halt(reqUser, GateBody(403, "Access denied",
                                "You can only access your own resources"))
    ELSE Continue(reqUser)

requireOwnership(userIdField, reqUser, param) ==
    IF reqUser = NoUser
    THEN Halt(reqUser, GateBody(401, "Access denied", "Authentication required"))
    ELSE IF reqUser.role = "admin"
    THEN Continue(reqUser)
    ELSE IF userIdField \in {"userId", "_id"} /\ reqUser._id # param
    THEN Halt(reqUser, GateBody(403, "Access denied",
                                "You can only access your own resources"))
    ELSE Continue(reqUser)

\* requireRole answering 403 when no identity is attached
requireRole_403Anonymous(roles, reqUser) ==
    IF reqUser = NoUser \/ reqUser.role \notin roles
    THEN Halt(reqUser, GateBody(403, "Access denied", "One of the following roles is required"))
    ELSE Continue(reqUser)

requireRole(roles, reqUser) ==
    IF reqUser = NoUser
    THEN Halt(reqUser, GateBody(401, "Access denied", "Authentication required"))
    ELSE IF reqUser.role \notin roles
    THEN Halt(reqUser, GateBody(403, "Access denied", "One of the following roles is required"))
    ELSE Continue(reqUser)

\* ------------------------------------------------------------------------
\* Application error type and error translator
\* ------------------------------------------------------------------------
\* An error value as the translator probes it.  name, code, type: '' when the
\* property is undefined; status, statusCode: 0 when undefined; details: ''
\* when null; hasErrors / hasKeyValue: whether err.errors / err.keyValue is
\* defined; hasStack: whether err.stack is defined.
PlainError(message) ==
    [name |-> "Error", code |-> "", type |-> "", hasErrors |-> FALSE,
     hasKeyValue |-> FALSE, keyField |-> "", status |-> 0,
     isOperational |-> FALSE, statusCode |-> 0, message |-> message,
     details |-> "", hasStack |-> TRUE]

\* AppError without the operational mark
AppError_NotOperational(message, statusCode, details) ==
    [PlainError(message) EXCEPT !.statusCode = statusCode,
                                !.details = details]

\* new AppError(message, statusCode, details)
AppError(message, statusCode, details) ==
    [PlainError(message) EXCEPT !.statusCode = statusCode,
                                !.details = details,
                                !.isOperational = TRUE]

\* mongoose's error of save() on a document that is no longer stored
DocumentNotFoundError ==
    [PlainError("No document found for query") EXCEPT
        !.name = "DocumentNotFoundError"]

\* What Express sends when the error middleware itself throws: its final
\* handler answers 500 with a non-JSON body.
FinalHandler500 ==
    [code |-> 500, fields |-> {}, error |-> "", message |-> "", status |-> 0,
     path |-> "", method |-> "", details |-> ""]

\* The rules with the storage-unreachable rule answering 500
Classify_Db500(err) ==
    IF err.isOperational
    THEN [sc |-> IF err.statusCode # 0 THEN err.statusCode ELSE 400,
          msg |-> err.message, det |-> err.details]
    ELSE IF err.status = 429
    THEN [sc |-> 429, msg |-> "Too many requests", det |-> "Please try again later"]
    ELSE IF err.name \in {"MongoNetworkError", "MongoTimeoutError"}
    THEN [sc |-> 500, msg |-> "Database connection error",
          det |-> "Service temporarily unavailable"]
    ELSE IF err.code = "LIMIT_UNEXPECTED_FILE"
    THEN [sc |-> 400, msg |-> "Unexpected file field",
          det |-> "Please check the file upload field name"]
    ELSE IF err.code = "LIMIT_FILE_SIZE"
    THEN [sc |-> 400, msg |-> "File too large", det |-> "Please upload a smaller file"]
    ELSE IF err.type = "ValidationError" /\ err.hasErrors
    THEN [sc |-> 400, msg |-> "Validation Error", det |-> "[{field, message, value}]"]
    ELSE IF err.name = "TokenExpiredError"
    THEN [sc |-> 401, msg |-> "Token expired", det |-> "Please log in again"]
    ELSE IF err.name = "JsonWebTokenError"
    THEN [sc |-> 401, msg |-> "Invalid token",
          det |-> "Please provide a valid authentication token"]
    ELSE IF err.name = "ValidationError"
    THEN [sc |-> 400, msg |-> "Validation Error", det |-> "[field messages]"]
    ELSE IF err.code = "11000"
    THEN [sc |-> 400, msg |-> "Duplicate field value",
          det |-> err.keyField \o " already exists"]
    ELSE IF err.name = "CastError"
    THEN [sc |-> 400, msg |-> "Invalid resource ID format",
          det |-> "The provided ID is not a valid MongoDB ObjectId"]
    ELSE [sc |-> 500, msg |-> "Internal Server Error", det |-> ""]

\* The classification rules of errorHandler, applied in source order to the
\* triple (statusCode, message, details); each rule that matches overwrites.
Classify(err) ==
    LET d0 == [sc |-> 500, msg |-> "Internal Server Error", det |-> ""]
        d1 == IF err.name = "CastError"
              THEN [sc |-> 400, msg |-> "Invalid resource ID format",
                    det |-> "The provided ID is not a valid MongoDB ObjectId"]
              ELSE d0
        d2 == IF err.code = "11000"
              THEN [sc |-> 400, msg |-> "Duplicate field value",
                    det |-> err.keyField \o " already exists"]
              ELSE d1
        d3 == IF err.name = "ValidationError"
              THEN [sc |-> 400, msg |-> "Validation Error",
                    det |-> "[field messages]"]
              ELSE d2
        d4 == IF err.name = "JsonWebTokenError"
              THEN [sc |-> 401, msg |-> "Invalid token",
                    det |-> "Please provide a valid authentication token"]
              ELSE d3
        d5 == IF err.name = "TokenExpiredError"
              THEN [sc |-> 401, msg |-> "Token expired",
                    det |-> "Please log in again"]
              ELSE d4
        d6 == IF err.type = "ValidationError" /\ err.hasErrors
              THEN [sc |-> 400, msg |-> "Validation Error",
                    det |-> "[{field, message, value}]"]
              ELSE d5
        d7 == IF err.code = "LIMIT_FILE_SIZE"
              THEN [sc |-> 400, msg |-> "File too large",
                    det |-> "Please upload a smaller file"]
              ELSE d6
        d8 == IF err.code = "LIMIT_UNEXPECTED_FILE"
              THEN [sc |-> 400, msg |-> "Unexpected file field",
                    det |-> "Please check the file upload field name"]
              ELSE d7
        d9 == IF err.name \in {"MongoNetworkError", "MongoTimeoutError"}
              THEN [sc |-> 503, msg |-> "Database connection error",
                    det |-> "Service temporarily unavailable"]
              ELSE d8
        d10 == IF err.status = 429
               THEN [sc |-> 429, msg |-> "Too many requests",
                     det |-> "Please try again later"]
               ELSE d9
        d11 == IF err.isOperational
               THEN [sc |-> IF err.statusCode # 0 THEN err.statusCode ELSE 400,
                     msg |-> err.message,
                     det |-> err.details]
               ELSE d10
    IN  d11

\* Object.keys(err.keyValue) and Object.values(err.errors) throw a TypeError
\* when the property they read is undefined.
TranslatorThrows(err) ==
    \/ err.code = "11000" /\ ~err.hasKeyValue
    \/ err.name = "ValidationError" /\ ~err.hasErrors

\* errorHandler passing the error's own message and details to the client
\* when no rule matches
errorHandler_OwnMessage(err, originalUrl, method, requestId, env) ==
    LET r == Classify(err)
        c == IF r.sc = 500 /\ r.msg = "Internal Server Error"
             THEN [sc |-> 500, msg |-> err.message, det |-> err.details]
             ELSE r
    IN  IF TranslatorThrows(err)
        THEN FinalHandler500
        ELSE [code |-> c.sc,
              fields |->
                  {f \in {"error", "status", "timestamp", "path", "method",
                          "details", "requestId", "stack"} :
                      /\ f = "details" => c.det # ""
                      /\ f = "requestId" => requestId # ""
                      /\ f = "stack" => env = "development" /\ err.hasStack},
              error |-> c.msg,
              message |-> "",
              status |-> c.sc,
              path |-> originalUrl,
              method |-> method,
              details |-> c.det]

\* errorHandler including the stack whenever NODE_ENV is not 'production'
errorHandler_StackUnlessProduction(err, originalUrl, method, requestId, env) ==
    LET c == Classify(err)
    IN  IF TranslatorThrows(err)
        THEN FinalHandler500
        ELSE [code |-> c.sc,
              fields |->
                  {f \in {"error", "status", "timestamp", "path", "method",
                          "details", "requestId", "stack"} :
                      /\ f = "details" => c.det # ""
                      /\ f = "requestId" => requestId # ""
                      /\ f = "stack" => env # "production" /\ err.hasStack},
              error |-> c.msg,
              message |-> "",
              status |-> c.sc,
              path |-> originalUrl,
              method |-> method,
              details |-> c.det]

\* errorHandler(err, req, res, next): the response it sends for a request
\* with the given originalUrl, method and requestId, under NODE_ENV = nodeEnv.
errorHandler(err, originalUrl, method, requestId, env) ==
    LET c == Classify(err)
    IN  IF TranslatorThrows(err)
        THEN FinalHandler500
        ELSE [code |-> c.sc,
              fields |->
                  {f \in {"error", "status", "timestamp", "path", "method",
                          "details", "requestId", "stack"} :
                      /\ f = "details" => c.det # ""
                      /\ f = "requestId" => requestId # ""
                      /\ f = "stack" => env = "development" /\ err.hasStack},
              error |-> c.msg,
              message |-> "",
              status |-> c.sc,
              path |-> originalUrl,
              method |-> method,
              details |-> c.det]

\* notFound building its error with status 400
notFound_BadRequest(originalUrl, method) ==
    AppError("Route " \o originalUrl \o " not found", 400,
             "Cannot " \o method \o " " \o originalUrl)

\* notFound(req, res, next): the error it passes to next
notFound(originalUrl, method) ==
    AppError("Route " \o originalUrl \o " not found", 404,
             "Cannot " \o method \o " " \o originalUrl)

\* asyncHandler without the catch
asyncHandler_NoCatch(rejected, reason) == <<>>

\* asyncHandler(fn)(req, res, next): the arguments it calls next with, given
\* whether the promise returned by fn was rejected, and the reason.
asyncHandler(rejected, reason) == IF rejected THEN <<reason>> ELSE <<>>

\* ------------------------------------------------------------------------
\* Password utilities
\* ------------------------------------------------------------------------
\* A password is the sequence of its characters.
LowerCase ==
    {"a", "b", "c", "d", "e", "f", "g", "h", "i", "j", "k", "l", "m", "n",
     "o", "p", "q", "r", "s", "t", "u", "v", "w", "x", "y", "z"}

UpperCaseLetters ==
    <<"A", "B", "C", "D", "E", "F", "G", "H", "I", "J", "K", "L", "M", "N",
      "O", "P", "Q", "R", "S", "T", "U", "V", "W", "X", "Y", "Z">>

LowerCaseLetters ==
    <<"a", "b", "c", "d", "e", "f", "g", "h", "i", "j", "k", "l", "m", "n",
      "o", "p", "q", "r", "s", "t", "u", "v", "w", "x", "y", "z">>

UpperCase == {UpperCaseLetters[i] : i \in DOMAIN UpperCaseLetters}

Digits == {"0", "1", "2", "3", "4", "5", "6", "7", "8", "9"}

\* The class [!@#$%^&*(),.?":{}|<>]
SpecialChars ==
    {"!", "@", "#", "$", "%", "^", "&", "*", "(", ")", ",", ".", "?", "\"",
     ":", "{", "}", "|", "<", ">"}

\* /[class]/.test(password)
test(class, password) == \E i \in DOMAIN password : password[i] \in class

\* The character under the i flag of a regular expression.
lower(c) ==
    IF c \in UpperCase
    THEN LowerCaseLetters[CHOOSE i \in DOMAIN UpperCaseLetters :
                              UpperCaseLetters[i] = c]
    ELSE c

\* /(.)\1{2,}/.test(password): a character three times in a row
hasRepeated(password) ==
    \E i \in 1..(Len(password) - 2) :
        password[i] = password[i + 1] /\ password[i] = password[i + 2]

\* /123|abc|qwe/i.test(password)
hasCommonSequence(password) ==
    \E i \in 1..(Len(password) - 2) :
        <<lower(password[i]), lower(password[i + 1]), lower(password[i + 2])>>
            \in {<<"1", "2", "3">>, <<"a", "b", "c">>, <<"q", "w", "e">>}

Score(cond) == IF cond THEN 1 ELSE 0

calculatePasswordStrength(password) ==
    LET score == Score(Len(password) >= 8) + Score(Len(password) >= 12)
                 + Score(test(LowerCase, password))
                 + Score(test(UpperCase, password))
                 + Score(test(Digits, password))
                 + Score(test(SpecialChars, password))
                 + Score(~hasRepeated(password))
                 + Score(~hasCommonSequence(password))
    IN  IF score < 3 THEN "weak" ELSE IF score < 6 THEN "medium" ELSE "strong"

minLength == 6

\* validatePassword without the uppercase rule
validatePassword_NoUpperCaseRule(password) ==
    LET errors ==
            (IF Len(password) < minLength
             THEN <<"Password must be at least 6 characters long">> ELSE <<>>)
            \o (IF ~test(LowerCase, password)
                THEN <<"Password must contain at least one lowercase letter">>
                ELSE <<>>)
            \o (IF ~test(Digits, password)
                THEN <<"Password must contain at least one number">> ELSE <<>>)
    IN  [isValid |-> Len(errors) = 0, errors |-> errors,
         strength |-> calculatePasswordStrength(password)]

validatePassword(password) ==
    LET errors ==
            (IF Len(password) < minLength
             THEN <<"Password must be at least 6 characters long">> ELSE <<>>)
            \o (IF ~test(UpperCase, password)
                THEN <<"Password must contain at least one uppercase letter">>
                ELSE <<>>)
            \o (IF ~test(LowerCase, password)
                THEN <<"Password must contain at least one lowercase letter">>
                ELSE <<>>)
            \o (IF ~test(Digits, password)
                THEN <<"Password must contain at least one number">> ELSE <<>>)
    IN  [isValid |-> Len(errors) = 0, errors |-> errors,
         strength |-> calculatePasswordStrength(password)]

\* The characters of the passwords the request bodies carry; the passwords
\* of the stored accounts never reach the utilities.
chars(str) ==
    CASE str = "" -> <<>>
      [] str = "Passw0rd" -> <<"P", "a", "s", "s", "w", "0", "r", "d">>
      [] str = "abc123" -> <<"a", "b", "c", "1", "2", "3">>
      [] str = "ABC123" -> <<"A", "B", "C", "1", "2", "3">>
      [] str = "Abcdef" -> <<"A", "b", "c", "d", "e", "f">>
      [] str = "abcdef" -> <<"a", "b", "c", "d", "e", "f">>
      [] str = "123456" -> <<"1", "2", "3", "4", "5", "6">>

\* An array of messages as the response body shows it.
RECURSIVE ArrayText(_)
ArrayText(errors) ==
    IF errors = <<>> THEN "[]"
    ELSE IF Len(errors) = 1 THEN errors[1]
    ELSE errors[1] \o "; " \o ArrayText(Tail(errors))

\* Passwords handed to the utilities: every string of at most MaxPasswordLen
\* characters over PasswordAlphabet, and the passwords of the unit tests and
\* of the request bodies.
MaxPasswordLen == 3

PasswordAlphabet == {"a", "b", "c", "A", "1", "!", " "}

LongPasswords ==
    {<<"S", "t", "r", "o", "n", "g", "P", "a", "s", "s", "w", "o", "r", "d", "1", "2", "3">>,
     <<"1", "2", "3", "4", "5">>,
     <<"p", "a", "s", "s", "w", "o", "r", "d", "1", "2", "3">>,
     <<"P", "A", "S", "S", "W", "O", "R", "D", "1", "2", "3">>,
     <<"P", "a", "s", "s", "w", "o", "r", "d", "O", "n", "l", "y">>,
     <<"P", "a", "s", "s", "w", "o", "r", "d", "1">>,
     <<"1", "2", "3", "4", "5", "6">>,
     <<"p", "a", "s", "s", "w", "o", "r", "d">>,
     <<"q", "w", "e", "r", "t", "y">>,
     <<"P", "a", "s", "s", "w", "o", "r", "d", "1", "2", "3">>,
     <<"S", "t", "r", "o", "n", "g", "P", "a", "s", "s", "w", "o", "r", "d", "1", "2", "3", "!", "@", "#">>,
     <<"P", "a", "s", "s", "w", "0", "r", "d">>,
     <<"a", "b", "c", "1", "2", "3">>,
     <<"A", "B", "C", "1", "2", "3">>,
     <<"A", "b", "c", "d", "e", "f">>,
     <<"a", "b", "c", "d", "e", "f">>,
     <<"A", "a", "a", "a", "1", "b", "c", "d">>,
     <<"Z", "x", "y", "9", "Z", "x", "y", "9", "Z", "x", "y", "9">>,
     <<"z", "x", "y", "v", "u", "t", "s", "r">>,
     <<"T", "r", "0", "u", "b", "4", "d", "o", "r", "&", "3", "x", "!">>}

PasswordInputs ==
    {w : w \in UNION {[1..n -> PasswordAlphabet] : n \in 0..MaxPasswordLen}
             \cup LongPasswords}

\* Nothing has been returned yet.
NoPasswordResults == [validation |-> <<>>, strength |-> <<>>]

\* ------------------------------------------------------------------------
\* Requests and routes
\* ------------------------------------------------------------------------
VARIABLES
    users,      \* the user collection
    accounts,   \* the user documents created by POST /api/auth/register
    postCount,  \* number of posts created
    nodeEnv,    \* process.env.NODE_ENV
    req,        \* req[s]: the request being handled in slot s
    terr,       \* the error handed to the translator
    treq,       \* the request the translator answers
    tres,       \* the responses the translator has sent
    gctx,       \* a request context handed to the role and ownership gates
    gout,       \* the outcomes of the gates applied to gctx
    rtoken,     \* a token handed to the identity resolver or to verifyToken
    rout,       \* the results the resolver has returned for rtoken
    tuser,      \* a user object handed to generateToken
    tdecoded,   \* the results verifyToken has returned for rtoken
    xheader,    \* an Authorization header handed to extractToken
    xtoken,     \* the results extractToken has returned for xheader
    pwd,        \* a password handed to the password utilities
    pwdOut,     \* what validatePassword and calculatePasswordStrength returned
    posts,      \* the post collection the read and like routes work on
    viewed      \* viewed[p]: the reads of p answered after incrementViews

\* Requests handled at the same time.
Slots == {1, 2}

\* The stacks with the validators of POST /api/posts ahead of auth
Pipeline_ValidateFirst(route) ==
    CASE route = "POST /api/posts" -> <<"validate", "auth", "handler">>
      [] route = "GET /api/posts" -> <<"validate", "optionalAuth", "handler">>
      [] route = "GET /api/users/:id" -> <<"auth", "requireOwnership", "handler">>
      [] route = "PUT /api/users/:id" ->
             <<"auth", "requireAdmin", "validate", "handler">>
      [] route = "DELETE /api/users/:id" -> <<"auth", "requireAdmin", "handler">>
      [] route = "POST /api/auth/change-password" -> <<"validate", "handler">>
      [] route = "POST /api/auth/register" -> <<"validate", "handler">>
      [] route = "POST /api/auth/login" -> <<"validate", "handler">>
      [] route = "POST /api/auth/forgot-password" -> <<"validate", "handler">>
      [] route = "GET /api/posts/:id" -> <<"optionalAuth", "handler">>
      [] route = "POST /api/posts/:id/like" -> <<"auth", "handler">>
      [] OTHER -> <<"catchAll">>

\* The middleware stack of each route, in the order the router runs it.
\* "validate" stands for the express-validator chains of the route, which
\* only record their result; "handler" for the asyncHandler-wrapped handler.
Pipeline(route) ==
    CASE route = "POST /api/posts" -> <<"auth", "validate", "handler">>
      [] route = "GET /api/posts" -> <<"validate", "optionalAuth", "handler">>
      [] route = "GET /api/users/:id" -> <<"auth", "requireOwnership", "handler">>
      [] route = "PUT /api/users/:id" ->
             <<"auth", "requireAdmin", "validate", "handler">>
      [] route = "DELETE /api/users/:id" -> <<"auth", "requireAdmin", "handler">>
      [] route = "POST /api/auth/change-password" -> <<"validate", "handler">>
      [] route = "POST /api/auth/register" -> <<"validate", "handler">>
      [] route = "POST /api/auth/login" -> <<"validate", "handler">>
      [] route = "POST /api/auth/forgot-password" -> <<"validate", "handler">>
      [] route = "GET /api/posts/:id" -> <<"optionalAuth", "handler">>
      [] route = "POST /api/posts/:id/like" -> <<"auth", "handler">>
      [] OTHER -> <<"catchAll">>

Routes ==
    {"POST /api/posts", "GET /api/posts", "GET /api/users/:id",
     "PUT /api/users/:id", "DELETE /api/users/:id",
     "POST /api/auth/change-password", "GET /api/unknown"}

UserRoutes ==
    {"GET /api/users/:id", "PUT /api/users/:id", "DELETE /api/users/:id"}

AuthRoutes ==
    {"POST /api/auth/register", "POST /api/auth/login",
     "POST /api/auth/forgot-password"}

\* The routes that read or like stored posts.
PostRoutes ==
    {"GET /api/posts", "GET /api/posts/:id", "POST /api/posts/:id/like"}

\* Requests no router matches.
UnmatchedRoutes == {"GET /api/unknown", "POST /api/unknown"}

\* The gates that halt a request; optionalAuth never does.
HaltingGates == {"auth", "requireAdmin", "requireOwnership"}

Method(route) ==
    CASE route \in {"POST /api/posts", "POST /api/auth/change-password",
                    "POST /api/unknown", "POST /api/posts/:id/like"}
             \/ route \in AuthRoutes -> "POST"
      [] route = "PUT /api/users/:id" -> "PUT"
      [] route = "DELETE /api/users/:id" -> "DELETE"
      [] OTHER -> "GET"

OriginalUrl(route, param) ==
    CASE route \in {"POST /api/posts", "GET /api/posts"} -> "/api/posts"
      [] route \in UserRoutes -> "/api/users/" \o param
      [] route = "GET /api/posts/:id" -> "/api/posts/" \o param
      [] route = "POST /api/posts/:id/like" -> "/api/posts/" \o param \o "/like"
      [] route = "POST /api/auth/change-password" -> "/api/auth/change-password"
      [] route = "POST /api/auth/register" -> "/api/auth/register"
      [] route = "POST /api/auth/login" -> "/api/auth/login"
      [] route = "POST /api/auth/forgot-password" -> "/api/auth/forgot-password"
      [] OTHER -> "/api/unknown"

\* Request bodies.  valid: whether every validator chain of the route
\* accepts the body; isActive: the isActive member as sent (JSON true/false,
\* the string 'false', or absent); categoryExists: whether body.category
\* names a stored category; email, username, login, password,
\* currentPassword, newPassword: the members of those names, '' when absent;
\* status: the status parameter of the query string, '' when absent.
NoBody ==
    [valid |-> TRUE, isActive |-> "undefined", categoryExists |-> TRUE,
     email |-> "", username |-> "", login |-> "", password |-> "",
     currentPassword |-> "", newPassword |-> "", status |-> ""]

RegEmails == {"n1@x.io", "N1@X.IO", "n2@x.io", "u1@x.io"}

RegNames == {"n1", "n2"}

Logins == {"u1", "n1@x.io", "nobody"}

Passwords == {"old", "Passw0rd", "wrong"}

\* Passwords of six characters that break a rule of validatePassword.
WeakPasswords == {"abc123", "ABC123", "Abcdef", "abcdef", "123456"}

ForgotEmails == {"u1@x.io", "n1@x.io", "N1@X.IO", "nobody@x.io"}

Bodies(route) ==
    CASE route = "POST /api/posts" ->
             {NoBody, [NoBody EXCEPT !.valid = FALSE],
              [NoBody EXCEPT !.categoryExists = FALSE]}
      [] route = "GET /api/posts" ->
             {[NoBody EXCEPT !.status = v] :
                  v \in {"", "draft", "published", "archived"}}
             \cup {[NoBody EXCEPT !.valid = FALSE, !.status = "everything"]}
      [] route = "PUT /api/users/:id" ->
             {[NoBody EXCEPT !.isActive = v] :
                  v \in {"undefined", "true", "false", "'false'"}}
             \cup {[NoBody EXCEPT !.valid = FALSE]}
      [] route = "POST /api/auth/change-password" ->
             {[NoBody EXCEPT !.currentPassword = c, !.newPassword = n] :
                  c \in {"old", "wrong"}, n \in {"Passw0rd", "abc123"}}
             \cup {[NoBody EXCEPT !.valid = FALSE]}
      [] route = "POST /api/auth/register" ->
             {[NoBody EXCEPT !.email = e, !.username = n,
                             !.password = "Passw0rd"] :
                  e \in RegEmails, n \in RegNames}
             \cup {[NoBody EXCEPT !.email = "n1@x.io", !.username = "n1",
                                  !.password = w] : w \in WeakPasswords}
             \cup {[NoBody EXCEPT !.valid = FALSE]}
      [] route = "POST /api/auth/login" ->
             {[NoBody EXCEPT !.login = l, !.password = w] :
                  l \in Logins, w \in Passwords}
             \cup {[NoBody EXCEPT !.valid = FALSE]}
      [] route = "POST /api/auth/forgot-password" ->
             {[NoBody EXCEPT !.email = e] : e \in ForgotEmails}
             \cup {[NoBody EXCEPT !.valid = FALSE]}
      [] OTHER -> {NoBody}

\* The stored posts, and the ids a request may name: a stored post and an
\* id no post has.
PostIds == {"p1", "p2"}

PostParams == {"p1", "p0"}

Params(route) ==
    IF route \in UserRoutes THEN ParamIds
    ELSE IF route \in {"GET /api/posts/:id", "POST /api/posts/:id/like"}
    THEN PostParams
    ELSE {""}

\* A post document: author is the id of its author, likes the user ids of
\* its likes array in order, v its version key __v.  exists = FALSE stands
\* for null.
NoPost ==
    [exists |-> FALSE, status |-> "", author |-> "", views |-> 0,
     likes |-> <<>>, v |-> 0]

NewPost(status, author) ==
    [exists |-> TRUE, status |-> status, author |-> author, views |-> 0,
     likes |-> <<>>, v |-> 0]

SeedPosts ==
    [p \in PostIds |->
        IF p = "p1" THEN NewPost("published", "a1") ELSE NewPost("draft", "a1")]

\* Tokens a client may send: the tokens issued to the two accounts, and
\* the token of u1 spoilt in one way each.
IssuedTokens == {generateToken(findById(InitUsers, i)) : i \in UserIds}

TokenU1 == generateToken(findById(InitUsers, "u1"))

TokenA1 == generateToken(findById(InitUsers, "a1"))

BadTokens ==
    {[TokenU1 EXCEPT !.sigOk = FALSE],
     [TokenU1 EXCEPT !.id = "a1", !.role = "admin", !.sigOk = FALSE],
     [TokenU1 EXCEPT !.expired = TRUE],
     [TokenU1 EXCEPT !.iss = "someone-else"],
     [TokenU1 EXCEPT !.aud = "someone-else"],
     [EmptyToken EXCEPT !.text = "garbage"]}

\* Authorization headers without a usable credential: no header, another
\* scheme, a bare token, a wrongly cased scheme, and 'Bearer ' alone.
UnusableHeaders ==
    {NoHeader, Header("Basic ", TokenA1), Header("", TokenA1),
     Header("bearer ", TokenA1), Header(BearerPrefix, EmptyToken)}

Headers ==
    {h : h \in UnusableHeaders
             \cup {Header(BearerPrefix, t) : t \in IssuedTokens \cup BadTokens}}

\* A slot without a request.  post is the post document the handler holds
\* in memory, atomics the update its save will send, returned the ids of
\* the posts in the response.
IdleReq ==
    [pc |-> "idle", route |-> "", headers |-> NoHeader, param |-> "",
     body |-> NoBody, user |-> NoUser, stage |-> 1, responses |-> <<>>,
     handlerStarted |-> FALSE, validation |-> "none", loaded |-> NoUser,
     gone |-> FALSE, fresh |-> FALSE, rejection |-> <<>>, passed |-> <<>>,
     post |-> NoPost, atomics |-> "", returned |-> {}]

vars ==
    <<users, accounts, postCount, nodeEnv, req, terr, treq, tres, gctx, gout,
      rtoken, rout, tuser, tdecoded, xheader, xtoken, pwd, pwdOut, posts,
      viewed>>

pipeVars == <<users, accounts, postCount, nodeEnv, req>>

errVars == <<terr, treq, tres>>

gateVars == <<gctx, gout>>

utilVars == <<xheader, xtoken, pwd, pwdOut>>

postVars == <<posts, viewed>>

resVars == <<rtoken, rout, tuser, tdecoded, utilVars, postVars>>

\* The stage a running request is about to execute.
Stage(q) == IF q.pc = "run" THEN Pipeline(q.route)[q.stage] ELSE ""

\* res.status(..).json(..): the body is appended and the request ends.
Respond(q, res) == [q EXCEPT !.responses = Append(@, res), !.pc = "done"]

\* A throw inside an asyncHandler-wrapped handler rejects the handler's
\* promise; what asyncHandler passes to next reaches errorHandler.  No
\* middleware sets req.requestId.  rejection records the reason, passed the
\* arguments of next.
Throw(q, err) ==
    LET calls == asyncHandler(TRUE, err)
        r == [q EXCEPT !.rejection = <<err>>, !.passed = calls]
    IN  IF calls = <<>>
        THEN [r EXCEPT !.pc = "done"]
        ELSE Respond(r, errorHandler(calls[1], OriginalUrl(q.route, q.param),
                                     Method(q.route), "", nodeEnv))

\* The handler sends its response and its promise is fulfilled.
Fulfil(q, res) ==
    [Respond(q, res) EXCEPT !.passed = asyncHandler(FALSE, PlainError(""))]

\* What a gate's outcome does to the request.
ApplyGate(q, o) ==
    IF o.next
    THEN [q EXCEPT !.user = o.user, !.stage = @ + 1]
    ELSE Respond([q EXCEPT !.user = o.user], o.res)

\* The account a request's credential names, "" when it names none.
Subject(h) ==
    IF Truthy(extractToken(h)) /\ verifyToken(extractToken(h)).ok
    THEN extractToken(h).id ELSE ""

\* The account is deactivated or deleted.
Revoked(us, i) == i \in UserIds /\ (~us[i].exists \/ ~us[i].isActive)

\* ------------------------------------------------------------------------
\* Operations
\* ------------------------------------------------------------------------
\* Requests for POST /api/posts that have not been answered yet.
Creating == {t \in Slots : req[t].pc = "run" /\ req[t].route = "POST /api/posts"}

\* How many reads of one post are answered after incrementViews, and how
\* many times one post is saved by the like route.
MaxViews == 2

MaxVersion == 3

\* Requests in flight that read, and that like, the post p.
Reading(p) ==
    {t \in Slots : /\ req[t].pc \in {"run", "save"}
                   /\ req[t].route = "GET /api/posts/:id"
                   /\ req[t].param = p}

Liking(p) ==
    {t \in Slots : /\ req[t].pc \in {"run", "save"}
                   /\ req[t].route = "POST /api/posts/:id/like"
                   /\ req[t].param = p}

\* A request arrives in slot s, with its header drawn from hs and its
\* route from rts.
Start(s, hs, rts) ==
    /\ req[s].pc = "idle"
    /\ \E route \in rts, h \in hs :
         \E p \in Params(route), b \in Bodies(route) :
            /\ route = "POST /api/posts" =>
                   postCount + Cardinality(Creating) < MaxPosts
            /\ (route = "GET /api/posts/:id" /\ p \in PostIds) =>
                   viewed[p] + Cardinality(Reading(p)) < MaxViews
            /\ (route = "POST /api/posts/:id/like" /\ p \in PostIds) =>
                   posts[p].v + Cardinality(Liking(p)) < MaxVersion
            /\ req' = [req EXCEPT ![s] =
                          [IdleReq EXCEPT !.pc = "run", !.route = route,
                                          !.headers = h, !.param = p,
                                          !.body = b,
                                          !.gone = Revoked(users, Subject(h)),
                                          !.fresh =
                                              Matching(users, accounts,
                                                       toLowerCase(b.email),
                                                       toLowerCase(b.username))
                                              = {}]]
    /\ UNCHANGED <<users, postCount, nodeEnv, accounts, errVars, gateVars,
                 resVars>>

AuthStep(s) ==
    /\ Stage(req[s]) = "auth"
    /\ req' = [req EXCEPT ![s] = ApplyGate(@, auth(@.headers, @.user, users))]
    /\ UNCHANGED <<users, postCount, nodeEnv, accounts, errVars, gateVars,
                 resVars>>

OptionalAuthStep(s) ==
    /\ Stage(req[s]) = "optionalAuth"
    /\ req' = [req EXCEPT ![s] =
                  ApplyGate(@, optionalAuth(@.headers, @.user, users))]
    /\ UNCHANGED <<users, postCount, nodeEnv, accounts, errVars, gateVars,
                 resVars>>

RequireAdminStep(s) ==
    /\ Stage(req[s]) = "requireAdmin"
    /\ req' = [req EXCEPT ![s] = ApplyGate(@, requireAdmin(@.user))]
    /\ UNCHANGED <<users, postCount, nodeEnv, accounts, errVars, gateVars,
                 resVars>>

\* Both user routes install requireOwnership('id', 'userId').
RequireOwnershipStep(s) ==
    /\ Stage(req[s]) = "requireOwnership"
    /\ req' = [req EXCEPT ![s] =
                  ApplyGate(@, requireOwnership("userId", @.user, @.param))]
    /\ UNCHANGED <<users, postCount, nodeEnv, accounts, errVars, gateVars,
                 resVars>>

\* The validator chains record their result on the request and continue.
ValidateStep(s) ==
    /\ Stage(req[s]) = "validate"
    /\ req' = [req EXCEPT ![s] =
                  [@ EXCEPT !.validation =
                                IF req[s].body.valid THEN "ok" ELSE "failed",
                            !.stage = @ + 1]]
    /\ UNCHANGED <<users, postCount, nodeEnv, accounts, errVars, gateVars,
                 resVars>>

ValidationError == AppError("Validation Error", 400, "[validator errors]")

\* POST /api/posts
CreatePost(s) ==
    LET q == [req[s] EXCEPT !.handlerStarted = TRUE]
    IN  /\ Stage(req[s]) = "handler"
        /\ req[s].route = "POST /api/posts"
        /\ IF q.validation = "failed"
           THEN /\ req' = [req EXCEPT ![s] = Throw(q, ValidationError)]
                /\ UNCHANGED postCount
           ELSE IF ~q.body.categoryExists
           THEN /\ req' = [req EXCEPT ![s] =
                              Throw(q, AppError("Category not found", 404, ""))]
                /\ UNCHANGED postCount
           ELSE /\ postCount' = postCount + 1
                /\ req' = [req EXCEPT ![s] =
                              Fulfil(q, OkBody(201, "Post created successfully"))]
        /\ UNCHANGED <<users, nodeEnv, accounts, errVars, gateVars,
                 resVars>>

\* Post.find(query) with query.status = status, on the first page
find(status) == {p \in PostIds : posts[p].exists /\ posts[p].status = status}

\* GET /api/posts.  The status parameter defaults to 'published' and counts
\* for admins only.
ListPosts(s) ==
    LET q == [req[s] EXCEPT !.handlerStarted = TRUE]
        status == IF q.body.status = "" THEN "published" ELSE q.body.status
        queryStatus ==
            IF q.user # NoUser /\ q.user.role = "admin"
            THEN status ELSE "published"
    IN  /\ Stage(req[s]) = "handler"
        /\ req[s].route = "GET /api/posts"
        /\ req' = [req EXCEPT ![s] =
                      IF q.validation = "failed"
                      THEN Throw(q, ValidationError)
                      ELSE Fulfil([q EXCEPT !.returned = find(queryStatus)],
                                  [OkBody(200, "") EXCEPT
                                      !.fields = {"posts", "pagination"}])]
        /\ UNCHANGED <<users, postCount, nodeEnv, accounts, errVars, gateVars,
                 resVars>>

\* Post.findById(id): the stored document, null when there is none.
findPost(id) == IF id \in PostIds THEN posts[id] ELSE NoPost

\* Reading a property of the populated author when populate has set it to
\* null.
NullAuthorError ==
    [PlainError("Cannot read properties of null (reading '_id')") EXCEPT
        !.name = "TypeError"]

\* GET /api/posts/:id up to the save of incrementViews.  populate sets
\* post.author to the author's document, or to null when it is gone.
GetPostLoad(s) ==
    LET q == [req[s] EXCEPT !.handlerStarted = TRUE]
        post == findPost(q.param)
        author == findById(users, post.author)
        found == [q EXCEPT !.post = post]
        sent == Fulfil([found EXCEPT !.returned = {q.param}],
                       [OkBody(200, "") EXCEPT !.fields = {"post"}])
    IN  /\ Stage(req[s]) = "handler"
        /\ req[s].route = "GET /api/posts/:id"
        /\ req' = [req EXCEPT ![s] =
                      IF ~post.exists
                      THEN Throw(q, AppError("Post not found", 404, ""))
                      ELSE IF post.status # "published"
                      THEN IF q.user = NoUser
                           THEN Throw(found, AppError("Post not found", 404, ""))
                           ELSE IF q.user.role = "admin"
                           THEN sent
                           ELSE IF author = NoUser
                           THEN Throw(found, NullAuthorError)
                           ELSE IF author._id # q.user._id
                           THEN Throw(found, AppError("Post not found", 404, ""))
                           ELSE sent
                      ELSE IF q.user = NoUser
                      THEN [found EXCEPT !.pc = "save", !.post.views = @ + 1]
                      ELSE IF author = NoUser
                      THEN Throw(found, NullAuthorError)
                      ELSE IF author._id # q.user._id
                      THEN [found EXCEPT !.pc = "save", !.post.views = @ + 1]
                      ELSE sent]
        /\ UNCHANGED <<users, postCount, nodeEnv, accounts, errVars, gateVars,
                 resVars>>

\* The save of incrementViews writes the views of the document in memory,
\* and the handler sends the post.
GetPostSave(s) ==
    LET q == req[s]
    IN  /\ q.pc = "save"
        /\ q.route = "GET /api/posts/:id"
        /\ posts' = [posts EXCEPT ![q.param].views = q.post.views]
        /\ viewed' = [viewed EXCEPT ![q.param] = @ + 1]
        /\ req' = [req EXCEPT ![s] =
                      Fulfil([q EXCEPT !.returned = {q.param}],
                             [OkBody(200, "") EXCEPT !.fields = {"post"}])]
        /\ UNCHANGED <<users, postCount, nodeEnv, accounts, errVars, gateVars,
                 rtoken, rout, tuser, tdecoded, utilVars>>

\* The user ids of a likes array.
Likers(likes) == {likes[i] : i \in DOMAIN likes}

\* this.likes.filter(like => like.user.toString() !== userId.toString())
Without(likes, userId) ==
    LET other(u) == u # userId IN SelectSeq(likes, other)

\* toggleLike(userId) on the document in memory, up to its save: a like is
\* pushed, or the array is replaced by the one without the user's likes.
toggleLike(post, userId) ==
    IF userId \in Likers(post.likes)
    THEN [post |-> [post EXCEPT !.likes = Without(@, userId)],
          atomics |-> "$set"]
    ELSE [post |-> [post EXCEPT !.likes = Append(@, userId)],
          atomics |-> "$push"]

\* POST /api/posts/:id/like up to the save of toggleLike
LikeLoad(s) ==
    LET q == [req[s] EXCEPT !.handlerStarted = TRUE]
        post == findPost(q.param)
        toggled == toggleLike(post, q.user._id)
    IN  /\ Stage(req[s]) = "handler"
        /\ req[s].route = "POST /api/posts/:id/like"
        /\ req' = [req EXCEPT ![s] =
                      IF ~post.exists
                      THEN Throw(q, AppError("Post not found", 404, ""))
                      ELSE IF post.status # "published"
                      THEN Throw(q, AppError("Cannot like unpublished post",
                                             400, ""))
                      ELSE [q EXCEPT !.pc = "save", !.post = toggled.post,
                                     !.atomics = toggled.atomics]]
        /\ UNCHANGED <<users, postCount, nodeEnv, accounts, errVars, gateVars,
                 resVars>>

\* The save of a document whose version key no longer matches.
VersionError ==
    [PlainError("No matching document found for id") EXCEPT
        !.name = "VersionError"]

\* The save of toggleLike and the response.  A pushed like is appended to
\* the stored array whatever its version; a replaced array is written only
\* when the stored version is the one that was loaded.
LikeSave(s) ==
    LET q == req[s]
        stored == posts[q.param]
    IN  /\ q.pc = "save"
        /\ q.route = "POST /api/posts/:id/like"
        /\ IF q.atomics = "$push"
           THEN /\ posts' = [posts EXCEPT ![q.param].likes =
                                              Append(@, q.user._id),
                                          ![q.param].v = @ + 1]
                /\ req' = [req EXCEPT ![s] = Fulfil(q, OkBody(200, "Post liked"))]
           ELSE IF stored.v # q.post.v
           THEN /\ req' = [req EXCEPT ![s] = Throw(q, VersionError)]
                /\ UNCHANGED posts
           ELSE /\ posts' = [posts EXCEPT ![q.param].likes = q.post.likes,
                                          ![q.param].v = @ + 1]
                /\ req' = [req EXCEPT ![s] =
                              Fulfil(q, OkBody(200, "Post unliked"))]
        /\ UNCHANGED <<users, postCount, nodeEnv, accounts, errVars, gateVars,
                 rtoken, rout, tuser, tdecoded, utilVars, viewed>>

\* GET /api/users/:id
GetUser(s) ==
    LET q == [req[s] EXCEPT !.handlerStarted = TRUE]
    IN  /\ Stage(req[s]) = "handler"
        /\ req[s].route = "GET /api/users/:id"
        /\ req' = [req EXCEPT ![s] =
                      IF findById(users, q.param) = NoUser
                      THEN Throw(q, AppError("User not found", 404, ""))
                      ELSE Fulfil(q, [OkBody(200, "") EXCEPT !.fields = {"user"}])]
        /\ UNCHANGED <<users, postCount, nodeEnv, accounts, errVars, gateVars,
                 resVars>>

\* mongoose's cast of a value assigned to a Boolean path
CastBoolean(v) == v = "true"

\* PUT /api/users/:id up to the call of user.save()
UpdateUserLoad(s) ==
    LET q == [req[s] EXCEPT !.handlerStarted = TRUE]
        user == findById(users, q.param)
    IN  /\ Stage(req[s]) = "handler"
        /\ req[s].route = "PUT /api/users/:id"
        /\ req' = [req EXCEPT ![s] =
                      IF q.validation = "failed"
                      THEN Throw(q, ValidationError)
                      ELSE IF user = NoUser
                      THEN Throw(q, AppError("User not found", 404, ""))
                      ELSE IF user._id = q.user._id /\ q.body.isActive = "false"
                      THEN Throw(q, AppError("Cannot deactivate your own account",
                                             400, ""))
                      ELSE [q EXCEPT !.pc = "save", !.loaded = user]]
        /\ UNCHANGED <<users, postCount, nodeEnv, accounts, errVars, gateVars,
                 resVars>>

\* user.save() of PUT /api/users/:id and the response.  save() writes the
\* paths whose value changed and fails when the document is gone.
UpdateUserSave(s) ==
    LET q == req[s]
        newActive == IF q.body.isActive = "undefined"
                     THEN q.loaded.isActive
                     ELSE CastBoolean(q.body.isActive)
        modified == newActive # q.loaded.isActive
        done == Fulfil(q, [OkBody(200, "User updated successfully") EXCEPT
                              !.fields = {"message", "user"}])
    IN  /\ q.pc = "save"
        /\ q.route = "PUT /api/users/:id"
        /\ IF ~users[q.param].exists
           THEN /\ req' = [req EXCEPT ![s] = Throw(q, DocumentNotFoundError)]
                /\ UNCHANGED users
           ELSE /\ users' = IF modified
                            THEN [users EXCEPT ![q.param].isActive = newActive]
                            ELSE users
                /\ req' = [t \in Slots |->
                              IF t = s THEN done
                              ELSE IF Subject(req[t].headers) = q.param
                              THEN [req[t] EXCEPT
                                       !.gone = @ /\ Revoked(users', q.param)]
                              ELSE req[t]]
        /\ UNCHANGED <<postCount, nodeEnv, accounts, errVars, gateVars,
                 resVars>>

\* DELETE /api/users/:id up to the call of findByIdAndDelete
DeleteUserLoad(s) ==
    LET q == [req[s] EXCEPT !.handlerStarted = TRUE]
        user == findById(users, q.param)
    IN  /\ Stage(req[s]) = "handler"
        /\ req[s].route = "DELETE /api/users/:id"
        /\ req' = [req EXCEPT ![s] =
                      IF user = NoUser
                      THEN Throw(q, AppError("User not found", 404, ""))
                      ELSE IF user._id = q.user._id
                      THEN Throw(q, AppError("Cannot delete your own account",
                                             400, ""))
                      ELSE [q EXCEPT !.pc = "save", !.loaded = user]]
        /\ UNCHANGED <<users, postCount, nodeEnv, accounts, errVars, gateVars,
                 resVars>>

DeletedUser ==
    [exists |-> FALSE, role |-> "", isActive |-> FALSE, password |-> ""]

\* User.findByIdAndDelete of DELETE /api/users/:id and the response
DeleteUserCommit(s) ==
    /\ req[s].pc = "save"
    /\ req[s].route = "DELETE /api/users/:id"
    /\ users' = [users EXCEPT ![req[s].param] = DeletedUser]
    /\ req' = [req EXCEPT ![s] =
                  Fulfil(@, OkBody(200, "User deleted successfully"))]
    /\ UNCHANGED <<postCount, nodeEnv, accounts, errVars, gateVars,
                 resVars>>

\* POST /api/auth/change-password
ChangePassword(s) ==
    LET q == [req[s] EXCEPT !.handlerStarted = TRUE]
        passwordValidation == validatePassword(chars(q.body.newPassword))
    IN  /\ Stage(req[s]) = "handler"
        /\ req[s].route = "POST /api/auth/change-password"
        /\ IF q.user = NoUser
           THEN /\ req' = [req EXCEPT ![s] =
                              Throw(q, AppError("Authentication required", 401, ""))]
                /\ UNCHANGED users
           ELSE IF q.validation = "failed"
           THEN /\ req' = [req EXCEPT ![s] = Throw(q, ValidationError)]
                /\ UNCHANGED users
           ELSE IF findById(users, q.user._id) = NoUser
           THEN /\ req' = [req EXCEPT ![s] =
                              Throw(q, PlainError("Cannot read properties of null"))]
                /\ UNCHANGED users
           ELSE IF users[q.user._id].password # q.body.currentPassword
           THEN /\ req' = [req EXCEPT ![s] =
                              Throw(q, AppError("Invalid current password", 400, ""))]
                /\ UNCHANGED users
           ELSE IF ~passwordValidation.isValid
           THEN /\ req' = [req EXCEPT ![s] =
                              Throw(q, AppError("New password does not meet requirements",
                                                400,
                                                ArrayText(passwordValidation.errors)))]
                /\ UNCHANGED users
           ELSE /\ users' = [users EXCEPT ![q.user._id].password = q.body.newPassword]
                /\ req' = [req EXCEPT ![s] =
                              Fulfil(q, OkBody(200, "Password changed successfully"))]
        /\ UNCHANGED <<postCount, nodeEnv, accounts, errVars, gateVars,
                 resVars>>

\* The error of an insert that violates the unique index on field.
DuplicateKeyError(field) ==
    [PlainError("E11000 duplicate key error") EXCEPT
        !.name = "MongoServerError", !.code = "11000", !.hasKeyValue = TRUE,
        !.keyField = field]

RegisteredBody ==
    [OkBody(201, "User registered successfully") EXCEPT
        !.fields = {"message", "token", "user"}]

\* POST /api/auth/register up to the call of User.create
RegisterCheck(s) ==
    LET q == [req[s] EXCEPT !.handlerStarted = TRUE]
        email == toLowerCase(q.body.email)
        username == toLowerCase(q.body.username)
        passwordValidation == validatePassword(chars(q.body.password))
        existing == Matching(users, accounts, email, username)
    IN  /\ Stage(req[s]) = "handler"
        /\ req[s].route = "POST /api/auth/register"
        /\ IF q.validation = "failed"
           THEN req' = [req EXCEPT ![s] = Throw(q, ValidationError)]
           ELSE IF ~passwordValidation.isValid
           THEN req' = [req EXCEPT ![s] =
                           Throw(q, AppError("Password does not meet requirements",
                                             400,
                                             ArrayText(passwordValidation.errors)))]
           ELSE IF existing # {}
           THEN \E existingUser \in existing :
                    req' = [req EXCEPT ![s] =
                               Throw(q, AppError("User already exists", 400,
                                                 "A user with this "
                                                 \o (IF existingUser.email = email
                                                     THEN "email" ELSE "username")
                                                 \o " already exists"))]
           ELSE req' = [req EXCEPT ![s] = [q EXCEPT !.pc = "save"]]
        /\ UNCHANGED <<users, accounts, postCount, nodeEnv, errVars, gateVars,
                       resVars>>

\* User.create of POST /api/auth/register, the token, the save of lastLogin
\* and the response.  The insert fails when it violates a unique index.
RegisterCreate(s) ==
    LET q == req[s]
        doc == [email |-> toLowerCase(q.body.email),
                username |-> toLowerCase(q.body.username),
                password |-> q.body.password, isActive |-> TRUE]
        dups == DuplicateKeys(users, accounts, doc)
    IN  /\ q.pc = "save"
        /\ q.route = "POST /api/auth/register"
        /\ IF dups # {}
           THEN /\ \E f \in dups :
                       req' = [req EXCEPT ![s] = Throw(q, DuplicateKeyError(f))]
                /\ UNCHANGED accounts
           ELSE /\ accounts' = Append(accounts, doc)
                /\ req' = [req EXCEPT ![s] = Fulfil(q, RegisteredBody)]
        /\ UNCHANGED <<users, postCount, nodeEnv, errVars, gateVars, resVars>>

\* POST /api/auth/login
Login(s) ==
    LET q == [req[s] EXCEPT !.handlerStarted = TRUE]
        login == toLowerCase(q.body.login)
        found == Matching(users, accounts, login, login)
    IN  /\ Stage(req[s]) = "handler"
        /\ req[s].route = "POST /api/auth/login"
        /\ IF q.validation = "failed"
           THEN req' = [req EXCEPT ![s] = Throw(q, ValidationError)]
           ELSE IF found = {}
           THEN req' = [req EXCEPT ![s] =
                           Throw(q, AppError("Invalid credentials", 401,
                                             "User not found"))]
           ELSE \E user \in found :
                    req' = [req EXCEPT ![s] =
                               IF ~user.isActive
                               THEN Throw(q, AppError("Account deactivated", 403,
                                                      "Your account has been deactivated"))
                               ELSE IF user.password # q.body.password
                               THEN Throw(q, AppError("Invalid credentials", 401,
                                                      "Incorrect password"))
                               ELSE Fulfil(q, [OkBody(200, "Login successful") EXCEPT
                                                  !.fields = {"message", "token",
                                                              "user"}])]
        /\ UNCHANGED <<users, accounts, postCount, nodeEnv, errVars, gateVars,
                       resVars>>

ForgotPasswordMessage ==
    "If an account with this email exists, a password reset link has been sent"

\* The handler of forgot-password answering 404 when no account has the
\* email
forgotPassword_Reveals(q, found) ==
    IF q.validation = "failed"
    THEN Throw(q, ValidationError)
    ELSE IF ~found
    THEN Throw(q, AppError("User not found", 404, ""))
    ELSE Fulfil(q, OkBody(200, ForgotPasswordMessage))

\* The handler of POST /api/auth/forgot-password: the request after it ran,
\* found telling whether User.findOne returned a document.
forgotPassword(q, found) ==
    IF q.validation = "failed"
    THEN Throw(q, ValidationError)
    ELSE Fulfil(q, OkBody(200, ForgotPasswordMessage))

\* POST /api/auth/forgot-password
ForgotPassword(s) ==
    LET q == [req[s] EXCEPT !.handlerStarted = TRUE]
        email == toLowerCase(q.body.email)
        found == Matching(users, accounts, email, "") # {}
    IN  /\ Stage(req[s]) = "handler"
        /\ req[s].route = "POST /api/auth/forgot-password"
        /\ req' = [req EXCEPT ![s] = forgotPassword(q, found)]
        /\ UNCHANGED <<users, accounts, postCount, nodeEnv, errVars, gateVars,
                       resVars>>

\* app.use('*', ...): the catch-all for paths no router matches
CatchAll(s) ==
    /\ Stage(req[s]) = "catchAll"
    /\ req' = [req EXCEPT ![s] =
                  Respond(@, GateBody(404, "Route not found",
                                      "Cannot " \o Method(@.route) \o " "
                                      \o OriginalUrl(@.route, @.param)))]
    /\ UNCHANGED <<users, postCount, nodeEnv, accounts, errVars, gateVars,
                 resVars>>

\* notFound mounted for the paths no router matches: it passes its error to
\* next, and errorHandler answers.
NotFoundStep(s) ==
    LET q == req[s]
        url == OriginalUrl(q.route, q.param)
    IN  /\ Stage(q) = "catchAll"
        /\ req' = [req EXCEPT ![s] =
                      Respond(q, errorHandler(notFound(url, Method(q.route)), url,
                                              Method(q.route), "", nodeEnv))]
        /\ UNCHANGED <<users, postCount, nodeEnv, accounts, errVars, gateVars,
                 resVars>>

\* The response has been delivered; the slot takes the next request.
Finish(s) ==
    /\ req[s].pc = "done"
    /\ req' = [req EXCEPT ![s] = IdleReq]
    /\ UNCHANGED <<users, postCount, nodeEnv, accounts, errVars, gateVars,
                 resVars>>

\* ------------------------------------------------------------------------
\* The translator applied to one error
\* ------------------------------------------------------------------------
NodeEnvs == {"development", "production", "test", ""}

\* Error values: every combination of the properties the translator probes.
Errors ==
    {[name |-> n, code |-> c, type |-> t, hasErrors |-> he, hasKeyValue |-> hk,
      keyField |-> IF hk THEN "email" ELSE "", status |-> st,
      isOperational |-> op, statusCode |-> sc, message |-> "boom",
      details |-> d, hasStack |-> TRUE] :
        n \in {"Error", "CastError", "ValidationError", "JsonWebTokenError",
               "TokenExpiredError", "MongoNetworkError", "MongoTimeoutError"},
        c \in {"", "11000", "LIMIT_FILE_SIZE", "LIMIT_UNEXPECTED_FILE"},
        t \in {"", "ValidationError"},
        he \in BOOLEAN, hk \in BOOLEAN,
        st \in {0, 429},
        op \in BOOLEAN,
        sc \in {0, 404},
        d \in {"", "own details"}}

TReqs ==
    {[originalUrl |-> "/api/posts", method |-> m, requestId |-> i] :
        m \in {"POST"}, i \in {"", "req-1"}}

\* errorHandler answers the error.
Translate ==
    /\ tres = <<>>
    /\ tres' = <<errorHandler(terr, treq.originalUrl, treq.method,
                              treq.requestId, nodeEnv)>>
    /\ UNCHANGED <<pipeVars, terr, treq, gateVars, resVars>>

\* ------------------------------------------------------------------------
\* The role and ownership gates applied to one request context
\* ------------------------------------------------------------------------
\* How often each gate is applied to the context.
MaxApply == 2

Identities ==
    {[_id |-> i, role |-> r, isActive |-> TRUE] :
        i \in ParamIds, r \in {"user", "admin"}}

GateContexts ==
    {[user |-> u, param |-> p, roles |-> rs, userIdField |-> f] :
        u \in Identities \cup {NoUser}, p \in ParamIds,
        rs \in SUBSET {"user", "admin"},
        f \in {"author", "userId", "_id"}}

NoOutcomes == [admin |-> <<>>, role |-> <<>>, own |-> <<>>]

ApplyRequireAdmin ==
    LET o == requireAdmin(gctx.user)
    IN  /\ Len(gout.admin) < MaxApply
        /\ gout' = [gout EXCEPT !.admin = Append(@, o)]
        /\ gctx' = [gctx EXCEPT !.user = o.user]
        /\ UNCHANGED <<pipeVars, errVars, resVars>>

ApplyRequireRole ==
    LET o == requireRole(gctx.roles, gctx.user)
    IN  /\ Len(gout.role) < MaxApply
        /\ gout' = [gout EXCEPT !.role = Append(@, o)]
        /\ gctx' = [gctx EXCEPT !.user = o.user]
        /\ UNCHANGED <<pipeVars, errVars, resVars>>

ApplyRequireOwnership ==
    LET o == requireOwnership(gctx.userIdField, gctx.user, gctx.param)
    IN  /\ Len(gout.own) < MaxApply
        /\ gout' = [gout EXCEPT !.own = Append(@, o)]
        /\ gctx' = [gctx EXCEPT !.user = o.user]
        /\ UNCHANGED <<pipeVars, errVars, resVars>>

\* ------------------------------------------------------------------------
\* The identity resolver applied to one token
\* ------------------------------------------------------------------------
\* Contents of the user collection: each account active or deactivated, with
\* either role, or deleted.
StoredUsers ==
    {u : u \in {[exists |-> TRUE, role |-> r, isActive |-> a, password |-> "old"] :
                    r \in {"user", "admin"}, a \in BOOLEAN} \cup {DeletedUser}}

Stores == [UserIds -> StoredUsers]

Tokens == {t : t \in IssuedTokens \cup BadTokens \cup {EmptyToken}}

\* getUserFromToken is called with rtoken and reads the collection.
Resolve ==
    /\ rout = <<>>
    /\ rout' = <<getUserFromToken(rtoken, users)>>
    /\ UNCHANGED <<pipeVars, errVars, gateVars, rtoken, tuser, tdecoded, utilVars,
                 postVars>>

\* ------------------------------------------------------------------------
\* The token service applied to one user object
\* ------------------------------------------------------------------------
NoIdentity == [_id |-> "", id |-> "", username |-> "", email |-> "", role |-> ""]

\* User objects handed to generateToken: documents with an ObjectId _id, and
\* plain objects that carry their id as the string property id.
IdentityRecords ==
    {[_id |-> i[1], id |-> i[2], username |-> n, email |-> e, role |-> r] :
        i \in {<<"ObjectId(64b0)", "64b0">>, <<"ObjectId(64b1)", "64b1">>,
               <<"", "plain-7">>},
        n \in {"testuser", "admin", "n1"},
        e \in {"test@example.com", "admin@example.com"},
        r \in {"user", "admin"}}

\* generateToken(tuser)
Issue ==
    /\ rtoken = EmptyToken
    /\ rtoken' = generateToken(tuser)
    /\ UNCHANGED <<pipeVars, errVars, gateVars, rout, tuser, tdecoded, utilVars,
                 postVars>>

\* verifyToken(rtoken) on the token that was issued
Verify ==
    /\ rtoken # EmptyToken
    /\ tdecoded = <<>>
    /\ tdecoded' = <<verifyToken(rtoken)>>
    /\ UNCHANGED <<pipeVars, errVars, gateVars, rtoken, rout, tuser, utilVars,
                 postVars>>

\* What can happen to an issued token before it is presented: a byte of the
\* signature or of the payload is altered (the signature no longer matches),
\* its exp passes, it was signed for another issuer or audience, or what is
\* presented is not a JWT at all.
Spoilt(t) ==
    {[t EXCEPT !.sigOk = FALSE],
     [t EXCEPT !.role = "admin", !.sigOk = FALSE],
     [t EXCEPT !.id = "64b1", !.sigOk = FALSE],
     [t EXCEPT !.expired = TRUE],
     [t EXCEPT !.iss = "someone-else"],
     [t EXCEPT !.aud = "someone-else"],
     [EmptyToken EXCEPT !.text = "garbage"]}

\* The issued token is spoilt before verifyToken sees it.
Tamper ==
    /\ rtoken = generateToken(tuser)
    /\ tdecoded = <<>>
    /\ rtoken' \in Spoilt(rtoken)
    /\ UNCHANGED <<pipeVars, errVars, gateVars, rout, tuser, tdecoded, utilVars,
                 postVars>>

\* ------------------------------------------------------------------------
\* extractToken applied to one Authorization header
\* ------------------------------------------------------------------------
\* What a client may write in front of the token: the scheme the service
\* expects, the same in another case or without its blank, other schemes, and
\* nothing at all (a bare token).
Schemes == {"Bearer ", "bearer ", "BEARER ", "Bearer", "Basic ", "Token ", ""}

ExtractHeaders ==
    {h : h \in {NoHeader} \cup {Header(p, t) : p \in Schemes, t \in Tokens}}

\* extractToken(req) with req.headers.authorization = xheader
Extract ==
    /\ xtoken = <<>>
    /\ xtoken' = <<extractToken(xheader)>>
    /\ UNCHANGED <<pipeVars, errVars, gateVars, rtoken, rout, tuser, tdecoded,
                 xheader, pwd, pwdOut, postVars>>

\* ------------------------------------------------------------------------
\* The password utilities applied to one password
\* ------------------------------------------------------------------------
\* validatePassword(pwd)
ValidatePassword ==
    /\ pwdOut.validation = <<>>
    /\ pwdOut' = [pwdOut EXCEPT !.validation = <<validatePassword(pwd)>>]
    /\ UNCHANGED <<pipeVars, errVars, gateVars, rtoken, rout, tuser, tdecoded,
                 xheader, xtoken, pwd, postVars>>

\* calculatePasswordStrength(pwd)
CalculatePasswordStrength ==
    /\ pwdOut.strength = <<>>
    /\ pwdOut' = [pwdOut EXCEPT !.strength = <<calculatePasswordStrength(pwd)>>]
    /\ UNCHANGED <<pipeVars, errVars, gateVars, rtoken, rout, tuser, tdecoded,
                 xheader, xtoken, pwd, postVars>>

\* ------------------------------------------------------------------------
\* Specifications
\* ------------------------------------------------------------------------
PipeIdle ==
    /\ users = InitUsers
    /\ accounts = <<>>
    /\ postCount = 0
    /\ req = [s \in Slots |-> IdleReq]

ErrIdle ==
    /\ terr = PlainError("")
    /\ treq = [originalUrl |-> "", method |-> "", requestId |-> ""]
    /\ tres = <<>>

GateIdle ==
    /\ gctx = [user |-> NoUser, param |-> "", roles |-> {}, userIdField |-> ""]
    /\ gout = NoOutcomes

UtilIdle ==
    /\ xheader = NoHeader
    /\ xtoken = <<>>
    /\ pwd = <<>>
    /\ pwdOut = NoPasswordResults

PostIdle ==
    /\ posts = SeedPosts
    /\ viewed = [p \in PostIds |-> 0]

ResIdle ==
    /\ rtoken = EmptyToken
    /\ rout = <<>>
    /\ tuser = NoIdentity
    /\ tdecoded = <<>>
    /\ UtilIdle
    /\ PostIdle

\* One request at a time, every route and every header.
Init ==
    /\ PipeIdle
    /\ nodeEnv \in {"production", "development"}
    /\ ErrIdle
    /\ GateIdle
    /\ ResIdle

Next ==
    \/ Start(1, Headers, Routes)
    \/ AuthStep(1)
    \/ OptionalAuthStep(1)
    \/ RequireAdminStep(1)
    \/ RequireOwnershipStep(1)
    \/ ValidateStep(1)
    \/ CreatePost(1)
    \/ ListPosts(1)
    \/ GetUser(1)
    \/ UpdateUserLoad(1)
    \/ UpdateUserSave(1)
    \/ DeleteUserLoad(1)
    \/ DeleteUserCommit(1)
    \/ ChangePassword(1)
    \/ CatchAll(1)
    \/ Finish(1)

Spec == Init /\ [][Next]_vars

\* Two requests at a time on the user routes, with the credentials of the
\* two accounts.
ConcHeaders ==
    {NoHeader, Header(BearerPrefix, TokenU1), Header(BearerPrefix, TokenA1)}

InitConc ==
    /\ PipeIdle
    /\ nodeEnv = "production"
    /\ ErrIdle
    /\ GateIdle
    /\ ResIdle

NextConc ==
    \E s \in Slots :
        \/ Start(s, ConcHeaders, UserRoutes)
        \/ AuthStep(s)
        \/ RequireAdminStep(s)
        \/ RequireOwnershipStep(s)
        \/ ValidateStep(s)
        \/ GetUser(s)
        \/ UpdateUserLoad(s)
        \/ UpdateUserSave(s)
        \/ DeleteUserLoad(s)
        \/ DeleteUserCommit(s)
        \/ Finish(s)

SpecConc == InitConc /\ [][NextConc]_vars

\* Two requests at a time on the routes of the auth router that need no
\* credential.
InitAuth ==
    /\ PipeIdle
    /\ nodeEnv = "production"
    /\ ErrIdle
    /\ GateIdle
    /\ ResIdle

NextAuth ==
    \E s \in Slots :
        \/ Start(s, {NoHeader}, AuthRoutes)
        \/ ValidateStep(s)
        \/ RegisterCheck(s)
        \/ RegisterCreate(s)
        \/ Login(s)
        \/ ForgotPassword(s)
        \/ Finish(s)

SpecAuth == InitAuth /\ [][NextAuth]_vars

\* Requests for paths no router matches, answered by the catch-all of app.js
\* or by notFound.
InitNotFound ==
    /\ PipeIdle
    /\ nodeEnv \in {"production", "development"}
    /\ ErrIdle
    /\ GateIdle
    /\ ResIdle

NextNotFound ==
    \/ Start(1, Headers, UnmatchedRoutes)
    \/ CatchAll(1)
    \/ NotFoundStep(1)
    \/ Finish(1)

SpecNotFound == InitNotFound /\ [][NextNotFound]_vars

\* One request at a time on the routes that read or like posts, with every
\* header, on collections where the first post has any status and either
\* author and where the admin's account may have been deleted.
PostStores ==
    {[SeedPosts EXCEPT !["p1"] = NewPost(st, a)] :
        st \in {"draft", "published", "archived"}, a \in UserIds}

InitPosts ==
    /\ users \in {InitUsers, [InitUsers EXCEPT !["a1"] = DeletedUser]}
    /\ accounts = <<>>
    /\ postCount = 0
    /\ req = [s \in Slots |-> IdleReq]
    /\ nodeEnv = "production"
    /\ ErrIdle
    /\ GateIdle
    /\ rtoken = EmptyToken
    /\ rout = <<>>
    /\ tuser = NoIdentity
    /\ tdecoded = <<>>
    /\ UtilIdle
    /\ posts \in PostStores
    /\ viewed = [p \in PostIds |-> 0]

NextPosts ==
    \/ Start(1, Headers, PostRoutes)
    \/ AuthStep(1)
    \/ OptionalAuthStep(1)
    \/ ValidateStep(1)
    \/ ListPosts(1)
    \/ GetPostLoad(1)
    \/ GetPostSave(1)
    \/ LikeLoad(1)
    \/ LikeSave(1)
    \/ Finish(1)

SpecPosts == InitPosts /\ [][NextPosts]_vars

\* Two requests at a time that read or like the posts, with the credentials
\* of the two accounts.
InitPostConc ==
    /\ PipeIdle
    /\ nodeEnv = "production"
    /\ ErrIdle
    /\ GateIdle
    /\ ResIdle

NextPostConc ==
    \E s \in Slots :
        \/ Start(s, ConcHeaders,
                 {"GET /api/posts/:id", "POST /api/posts/:id/like"})
        \/ AuthStep(s)
        \/ OptionalAuthStep(s)
        \/ GetPostLoad(s)
        \/ GetPostSave(s)
        \/ LikeLoad(s)
        \/ LikeSave(s)
        \/ Finish(s)

SpecPostConc == InitPostConc /\ [][NextPostConc]_vars

\* The token service on every user object.
InitToken ==
    /\ PipeIdle
    /\ nodeEnv = "production"
    /\ ErrIdle
    /\ GateIdle
    /\ rtoken = EmptyToken
    /\ rout = <<>>
    /\ tuser \in IdentityRecords
    /\ tdecoded = <<>>
    /\ UtilIdle
    /\ PostIdle

NextToken == Issue \/ Verify

SpecToken == InitToken /\ [][NextToken]_vars

\* The token service on issued tokens that are spoilt before verification.
NextTamper == Issue \/ Tamper \/ Verify

SpecTamper == InitToken /\ [][NextTamper]_vars

\* extractToken on every header.
InitExtract ==
    /\ PipeIdle
    /\ nodeEnv = "production"
    /\ ErrIdle
    /\ GateIdle
    /\ rtoken = EmptyToken
    /\ rout = <<>>
    /\ tuser = NoIdentity
    /\ tdecoded = <<>>
    /\ xheader \in ExtractHeaders
    /\ xtoken = <<>>
    /\ pwd = <<>>
    /\ pwdOut = NoPasswordResults
    /\ PostIdle

NextExtract == Extract

SpecExtract == InitExtract /\ [][NextExtract]_vars

\* The password utilities on every password.
InitPassword ==
    /\ PipeIdle
    /\ nodeEnv = "production"
    /\ ErrIdle
    /\ GateIdle
    /\ rtoken = EmptyToken
    /\ rout = <<>>
    /\ tuser = NoIdentity
    /\ tdecoded = <<>>
    /\ xheader = NoHeader
    /\ xtoken = <<>>
    /\ pwd \in PasswordInputs
    /\ pwdOut = NoPasswordResults
    /\ PostIdle

NextPassword == ValidatePassword \/ CalculatePasswordStrength

SpecPassword == InitPassword /\ [][NextPassword]_vars

\* The translator on every error value.
InitErr ==
    /\ PipeIdle
    /\ nodeEnv \in NodeEnvs
    /\ terr \in Errors
    /\ treq \in TReqs
    /\ tres = <<>>
    /\ GateIdle
    /\ ResIdle

NextErr == Translate

SpecErr == InitErr /\ [][NextErr]_vars

\* The role and ownership gates on every request context.
InitGate ==
    /\ PipeIdle
    /\ nodeEnv = "production"
    /\ ErrIdle
    /\ gctx \in GateContexts
    /\ gout = NoOutcomes
    /\ ResIdle

NextGate ==
    \/ ApplyRequireAdmin
    \/ ApplyRequireRole
    \/ ApplyRequireOwnership

SpecGate == InitGate /\ [][NextGate]_vars

\* The identity resolver on every token and every content of the collection.
InitRes ==
    /\ users \in Stores
    /\ accounts = <<>>
    /\ postCount = 0
    /\ req = [s \in Slots |-> IdleReq]
    /\ nodeEnv = "production"
    /\ ErrIdle
    /\ GateIdle
    /\ rtoken \in Tokens
    /\ rout = <<>>
    /\ tuser = NoIdentity
    /\ tdecoded = <<>>
    /\ UtilIdle
    /\ PostIdle

NextRes == Resolve

SpecRes == InitRes /\ [][NextRes]_vars

\* ------------------------------------------------------------------------
\* Properties
\* ------------------------------------------------------------------------
\* Position of gate g in the stack of the route, 0 when it is not installed.
GateIdx(route, g) ==
    IF \E i \in DOMAIN Pipeline(route) : Pipeline(route)[i] = g
    THEN CHOOSE i \in DOMAIN Pipeline(route) : Pipeline(route)[i] = g
    ELSE 0

\* Gate g of the request's route has run.
GateRan(q, g) ==
    /\ q.pc # "idle"
    /\ GateIdx(q.route, g) > 0
    /\ \/ q.stage > GateIdx(q.route, g)
       \/ q.pc = "done" /\ q.stage = GateIdx(q.route, g)

\* Gate g of the request's route has run and called next().
GateContinued(q, g) ==
    /\ q.pc # "idle"
    /\ GateIdx(q.route, g) > 0
    /\ q.stage > GateIdx(q.route, g)

\* The request was answered by the stage named g.
HaltedAt(q, g) ==
    /\ q.pc = "done"
    /\ GateIdx(q.route, g) > 0
    /\ q.stage = GateIdx(q.route, g)

\* The step runs stage g of the request in slot s.
Fired(s, g) ==
    /\ Stage(req[s]) = g
    /\ req'[s].pc # "run" \/ req'[s].stage # req[s].stage

\* The request has no Authorization header, or one that does not start with
\* 'Bearer '.
NoCredential(h) == ~h.present \/ h.prefix # "Bearer "

\* Why resolution of the token in the header fails against the collection
\* us; "none" when it succeeds.
FailureKind(h, us) ==
    LET t == h.rest
    IN  IF \/ t.text # "jwt"
           \/ ~t.sigOk
           \/ t.expired
           \/ t.iss # "mern-testing-app"
           \/ t.aud # "mern-testing-users"
        THEN "TokenInvalid"
        ELSE IF t.id \notin UserIds \/ ~us[t.id].exists
        THEN "UserNotFound"
        ELSE IF ~us[t.id].isActive
        THEN "AccountDeactivated"
        ELSE "none"

\* C1: a request without a usable credential (no Authorization header, or
\* one not starting with 'Bearer ') never reaches the handler of a route
\* guarded by auth; once auth has run the request is answered, by exactly
\* one body with status 401 and error 'Access denied', and no identity is
\* attached.
C1_NoCredentialRejected ==
    \A s \in Slots :
        LET q == req[s]
        IN  (q.pc # "idle" /\ GateIdx(q.route, "auth") > 0
             /\ NoCredential(q.headers)) =>
                /\ ~q.handlerStarted
                /\ q.user = NoUser
                /\ GateRan(q, "auth") =>
                       /\ HaltedAt(q, "auth")
                       /\ Len(q.responses) = 1
                       /\ q.responses[1].code = 401
                       /\ q.responses[1].error = "Access denied"

\* A request carrying another scheme than Bearer has been answered by auth.
C1_Witness ==
    \E s \in Slots :
        /\ HaltedAt(req[s], "auth")
        /\ req[s].headers.present
        /\ req[s].headers.prefix = "Basic "
        /\ req[s].responses[1].code = 401

\* Status and message auth selects for a failure kind.
AuthFailureStatus(kind) == IF kind = "AccountDeactivated" THEN 403 ELSE 401

AuthFailureMessage(kind) ==
    CASE kind = "AccountDeactivated" -> "Account deactivated"
      [] kind = "UserNotFound" -> "User not found"
      [] OTHER -> "Invalid token"

\* C2: when auth runs on a request whose header carries a token and the
\* resolution of the token fails, the request is answered at once with
\* status 403 if the failure is AccountDeactivated and 401 otherwise, with
\* the message of the failure kind; no identity is attached and the handler
\* is not invoked.
C2_ResolutionFailureHalts ==
    [][\A s \in Slots :
          LET q == req[s]
              kind == FailureKind(q.headers, users)
          IN  (/\ Fired(s, "auth")
               /\ ~NoCredential(q.headers)
               /\ q.headers.rest.text # ""
               /\ kind # "none") =>
                  /\ req'[s].pc = "done"
                  /\ req'[s].stage = q.stage
                  /\ Len(req'[s].responses) = 1
                  /\ req'[s].responses[1].code = AuthFailureStatus(kind)
                  /\ req'[s].responses[1].message = AuthFailureMessage(kind)
                  /\ req'[s].user = NoUser
                  /\ ~req'[s].handlerStarted]_vars

\* auth has answered 403 to a request with the token of a deactivated account.
C2_Witness ==
    \E s \in Slots :
        /\ HaltedAt(req[s], "auth")
        /\ ~NoCredential(req[s].headers)
        /\ FailureKind(req[s].headers, users) = "AccountDeactivated"
        /\ req[s].responses[1].code = 403

\* C3: optionalAuth always calls next() and never answers: whatever the
\* header, the request moves on to the next stage with no response sent,
\* and an identity (the stored record of the token's subject) is attached
\* exactly when the header carries a token whose resolution succeeds.
C3_OptionalAuthContinues ==
    [][\A s \in Slots :
          LET q == req[s]
              resolved == /\ ~NoCredential(q.headers)
                          /\ FailureKind(q.headers, users) = "none"
          IN  Fired(s, "optionalAuth") =>
                  /\ req'[s].pc = "run"
                  /\ req'[s].stage = q.stage + 1
                  /\ req'[s].responses = <<>>
                  /\ req'[s].user =
                         IF resolved
                         THEN [_id |-> q.headers.rest.id,
                               role |-> users[q.headers.rest.id].role,
                               isActive |-> TRUE]
                         ELSE NoUser]_vars

\* The handler of GET /api/posts runs for a request with a wrongly signed
\* token, with no identity attached.
C3_Witness ==
    \E s \in Slots :
        /\ req[s].route = "GET /api/posts"
        /\ req[s].handlerStarted
        /\ ~NoCredential(req[s].headers)
        /\ FailureKind(req[s].headers, users) = "TokenInvalid"
        /\ req[s].user = NoUser

RoleDecision(u, rs) ==
    IF u = NoUser THEN 401 ELSE IF u.role \in rs THEN 0 ELSE 403

\* What an outcome decided, in the same encoding.
Decided(o) == IF o.next THEN 0 ELSE o.res.code

\* C5: requireRole halts with 401 when no identity is attached, with 403
\* when the identity's role is not among the allowed roles, and continues
\* exactly when it is; requireAdmin does the same for the single role
\* admin, so requireAdmin and requireRole('admin') decide alike.
C5_RoleGates ==
    /\ \A i \in DOMAIN gout.role :
           Decided(gout.role[i]) = RoleDecision(gctx.user, gctx.roles)
    /\ \A i \in DOMAIN gout.admin :
           Decided(gout.admin[i]) = RoleDecision(gctx.user, {"admin"})
    /\ gctx.roles = {"admin"} =>
           \A i \in DOMAIN gout.role, j \in DOMAIN gout.admin :
               Decided(gout.role[i]) = Decided(gout.admin[j])

\* requireAdmin and requireRole('admin') have both rejected a non-admin
\* identity with 403.
C5_Witness ==
    /\ gctx.roles = {"admin"}
    /\ gctx.user # NoUser
    /\ gctx.user.role = "user"
    /\ Len(gout.role) > 0
    /\ Len(gout.admin) > 0
    /\ Decided(gout.role[1]) = 403
    /\ Decided(gout.admin[1]) = 403

\* C6: in self mode (the user-id field is 'userId' or '_id')
\* requireOwnership halts with 401 when no identity is attached, continues
\* exactly when the identity is an admin or the route parameter equals the
\* identity's own id, and halts with 403 otherwise.
C6_OwnershipSelfMode ==
    gctx.userIdField \in {"userId", "_id"} =>
        \A i \in DOMAIN gout.own :
            Decided(gout.own[i]) =
                IF gctx.user = NoUser THEN 401
                ELSE IF gctx.user.role = "admin" \/ gctx.param = gctx.user._id
                THEN 0 ELSE 403

\* requireOwnership in self mode has let an admin through to a record that
\* is not the admin's own.
C6_Witness ==
    /\ gctx.userIdField = "userId"
    /\ gctx.user # NoUser
    /\ gctx.user.role = "admin"
    /\ gctx.param # gctx.user._id
    /\ Len(gout.own) > 0
    /\ gout.own[1].next

\* C7: getUserFromToken returns the stored record of the subject for every
\* token that verifies and whose subject is stored and active; it fails
\* with 'User not found' when no record has the subject's id, with 'User
\* account is deactivated' when the record is not active, and it returns no
\* record for a token that does not verify.
C7_Resolve ==
    \A i \in DOMAIN rout :
        LET kind == FailureKind(Header("Bearer ", rtoken), users)
            r == rout[i]
        IN  /\ kind = "none" =>
                /\ r.ok
                /\ r.user = [_id |-> rtoken.id,
                             role |-> users[rtoken.id].role,
                             isActive |-> TRUE]
            /\ kind = "UserNotFound" =>
                ~r.ok /\ r.user = NoUser /\ r.message = "User not found"
            /\ kind = "AccountDeactivated" =>
                /\ ~r.ok
                /\ r.user = NoUser
                /\ r.message = "User account is deactivated"
            /\ kind = "TokenInvalid" => ~r.ok /\ r.user = NoUser

\* The resolver has refused the valid token of a deactivated account.
C7_Witness ==
    /\ Len(rout) = 1
    /\ rtoken = TokenU1
    /\ users["u1"].exists
    /\ ~users["u1"].isActive
    /\ ~rout[1].ok

\* C8: a request that arrives while the account named by its token is
\* deactivated or deleted, the account staying so, is answered by auth
\* before its handler starts: with 403 when the account is deactivated at
\* the time auth reads it, with 401 when it is deleted.
C8_RevocationImmediate ==
    [][\A s \in Slots :
          LET q == req[s]
              i == Subject(q.headers)
          IN  /\ q.gone => Revoked(users, i) /\ ~q.handlerStarted
              /\ (Fired(s, "auth") /\ q.gone) =>
                     /\ req'[s].pc = "done"
                     /\ req'[s].stage = q.stage
                     /\ Len(req'[s].responses) = 1
                     /\ req'[s].responses[1].code =
                            IF users[i].exists THEN 403 ELSE 401
                     /\ ~req'[s].handlerStarted]_vars

\* A request with the token of an account deactivated before it arrived has
\* been answered 403 by auth.
C8_Witness ==
    \E s \in Slots :
        /\ req[s].gone
        /\ HaltedAt(req[s], "auth")
        /\ users[Subject(req[s].headers)].exists
        /\ req[s].responses[1].code = 403

\* C9: every request that is answered with a failure status has exactly one
\* response, whose body has the fields error, status, timestamp, path and
\* method.
C9_EveryFailureIsEnvelope ==
    \A s \in Slots :
        (req[s].pc = "done" /\ req[s].responses[1].code >= 400) =>
            /\ Len(req[s].responses) = 1
            /\ {"error", "status", "timestamp", "path", "method"}
                   \subseteq req[s].responses[1].fields

\* The rows of the classification table an error matches.
Signals(err) ==
    {g \in {"cast", "duplicate", "schema", "jwt", "expired", "request",
            "fileSize", "unexpectedFile", "storage", "rateLimit", "operational"} :
        \/ g = "cast" /\ err.name = "CastError"
        \/ g = "duplicate" /\ err.code = "11000"
        \/ g = "schema" /\ err.name = "ValidationError"
        \/ g = "jwt" /\ err.name = "JsonWebTokenError"
        \/ g = "expired" /\ err.name = "TokenExpiredError"
        \/ g = "request" /\ err.type = "ValidationError" /\ err.hasErrors
        \/ g = "fileSize" /\ err.code = "LIMIT_FILE_SIZE"
        \/ g = "unexpectedFile" /\ err.code = "LIMIT_UNEXPECTED_FILE"
        \/ g = "storage" /\ err.name \in {"MongoNetworkError", "MongoTimeoutError"}
        \/ g = "rateLimit" /\ err.status = 429
        \/ g = "operational" /\ err.isOperational}

\* A uniqueness violation carries the violating key and a schema-validation
\* failure its field errors, as the storage layer raises them.
Raisable(err) ==
    /\ err.code = "11000" => err.hasKeyValue
    /\ err.name = "ValidationError" => err.hasErrors

RowStatus(g) ==
    CASE g \in {"jwt", "expired"} -> 401
      [] g = "storage" -> 503
      [] g = "rateLimit" -> 429
      [] OTHER -> 400

RowMessage(g) ==
    CASE g = "cast" -> "Invalid resource ID format"
      [] g = "duplicate" -> "Duplicate field value"
      [] g = "schema" -> "Validation Error"
      [] g = "jwt" -> "Invalid token"
      [] g = "expired" -> "Token expired"
      [] g = "request" -> "Validation Error"
      [] g = "fileSize" -> "File too large"
      [] g = "unexpectedFile" -> "Unexpected file field"
      [] g = "storage" -> "Database connection error"
      [] OTHER -> "Too many requests"

\* C10: for an error that matches exactly one row of the classification
\* table, other than the row of operational errors, errorHandler answers
\* with the status and the message of that row.
C10_SingleSignalRow ==
    \A i \in DOMAIN tres :
        \A g \in Signals(terr) :
            (Signals(terr) = {g} /\ g # "operational" /\ Raisable(terr)) =>
                /\ tres[i].code = RowStatus(g)
                /\ tres[i].status = RowStatus(g)
                /\ tres[i].error = RowMessage(g)

\* errorHandler has answered 503 to an error whose only signal is that the
\* storage is unreachable.
C10_Witness ==
    /\ Len(tres) = 1
    /\ Signals(terr) = {"storage"}
    /\ tres[1].code = 503
    /\ tres[1].error = "Database connection error"

\* The rows of the classification table in the order of the table.
TableOrder ==
    <<"cast", "duplicate", "schema", "jwt", "expired", "request", "fileSize",
      "unexpectedFile", "storage", "rateLimit", "operational">>

\* The first row of the table the error matches.
FirstMatch(err) ==
    TableOrder[CHOOSE i \in DOMAIN TableOrder :
                   /\ TableOrder[i] \in Signals(err)
                   /\ \A j \in 1..(i - 1) : TableOrder[j] \notin Signals(err)]

\* C11: for an error that matches more than one row of the classification
\* table, errorHandler answers with the status and the message of the first
\* matching row in table order.
C11_FirstMatchWins ==
    \A i \in DOMAIN tres :
        (Cardinality(Signals(terr)) > 1 /\ Raisable(terr)) =>
            /\ tres[i].code = RowStatus(FirstMatch(terr))
            /\ tres[i].error = RowMessage(FirstMatch(terr))

\* C12: an error built by AppError is operational, and for every operational
\* error errorHandler answers with the error's own statusCode (400 when it
\* has none), its own message as the envelope's error and its own details
\* (no details field when it has none); the answer of an operational error
\* is never the default 'Internal Server Error'.
C12_OperationalOwnFields ==
    \A i \in DOMAIN tres :
        LET own == IF terr.statusCode # 0 THEN terr.statusCode ELSE 400
        IN  ((\/ terr.isOperational
              \/ terr = AppError(terr.message, terr.statusCode, terr.details))
             /\ Raisable(terr)) =>
                /\ tres[i].code = own
                /\ tres[i].status = own
                /\ tres[i].error = terr.message
                /\ tres[i].details = terr.details
                /\ "details" \in tres[i].fields <=> terr.details # ""
                /\ tres[i].error # "Internal Server Error"

\* errorHandler has answered 400 with the error's own message and details
\* to an AppError built without a status code.
C12_Witness ==
    /\ Len(tres) = 1
    /\ terr = AppError("boom", 0, "own details")
    /\ tres[1].code = 400
    /\ tres[1].error = "boom"
    /\ tres[1].details = "own details"

\* C13: an error that matches no row of the classification table and is not
\* operational is answered with status 500 and error 'Internal Server
\* Error', and the body has no details field, whatever message and details
\* the error carries.
C13_UnrecognizedIs500 ==
    \A i \in DOMAIN tres :
        Signals(terr) = {} =>
            /\ tres[i].code = 500
            /\ tres[i].status = 500
            /\ tres[i].error = "Internal Server Error"
            /\ "details" \notin tres[i].fields
            /\ tres[i].details = ""

\* errorHandler has answered 500 to an unrecognized error that carries
\* details of its own.
C13_Witness ==
    /\ Len(tres) = 1
    /\ Signals(terr) = {}
    /\ terr.details = "own details"
    /\ terr.statusCode = 404
    /\ tres[1].code = 500

\* C14: whenever NODE_ENV is not 'development' (production, test, unset),
\* the envelope errorHandler sends has no stack field, whatever the error.
C14_NoStackOutsideDevelopment ==
    \A i \in DOMAIN tres :
        (nodeEnv # "development" /\ ~TranslatorThrows(terr)) =>
            /\ "stack" \notin tres[i].fields
            /\ {"error", "status", "timestamp", "path", "method"}
                   \subseteq tres[i].fields

\* errorHandler has answered an error that has a stack with NODE_ENV unset.
C14_Witness ==
    /\ Len(tres) = 1
    /\ nodeEnv = ""
    /\ terr.hasStack
    /\ ~TranslatorThrows(terr)
    /\ "stack" \notin tres[1].fields

\* C15: when the promise of a handler wrapped by asyncHandler is rejected,
\* next is called exactly once, with the rejection reason, and the request
\* is answered by errorHandler for that reason; when the handler completes
\* without failure, asyncHandler does not call next at all and the handler's
\* own response is the only one.
C15_RejectionsReachTranslator ==
    \A s \in Slots :
        LET q == req[s]
        IN  /\ q.rejection # <<>> =>
                /\ q.handlerStarted
                /\ q.passed = q.rejection
                /\ Len(q.passed) = 1
                /\ q.pc = "done"
                /\ q.responses =
                       <<errorHandler(q.rejection[1],
                                      OriginalUrl(q.route, q.param),
                                      Method(q.route), "", nodeEnv)>>
            /\ (q.handlerStarted /\ q.pc = "done" /\ q.rejection = <<>>) =>
                /\ q.passed = <<>>
                /\ Len(q.responses) = 1
                /\ q.responses[1].code < 400

\* The handler of POST /api/posts has thrown 'Category not found' and the
\* request was answered 404 by errorHandler.
C15_Witness ==
    \E s \in Slots :
        /\ req[s].route = "POST /api/posts"
        /\ req[s].rejection = <<AppError("Category not found", 404, "")>>
        /\ req[s].passed = req[s].rejection
        /\ req[s].responses[1].code = 404
        /\ "path" \in req[s].responses[1].fields

\* C16: a request whose path no router matches is answered exactly once,
\* with status 404, before any handler; the body names the request's method
\* and original path, in the message 'Cannot <method> <path>' when the
\* catch-all answers (error 'Route not found'), and in the fields method and
\* path of the envelope when notFound and errorHandler answer.
C16_UnmatchedIs404 ==
    \A s \in Slots :
        LET q == req[s]
            m == Method(q.route)
            url == OriginalUrl(q.route, q.param)
            r == q.responses[1]
        IN  (q.pc = "done" /\ q.route \in UnmatchedRoutes) =>
                /\ Len(q.responses) = 1
                /\ ~q.handlerStarted
                /\ r.code = 404
                /\ \/ /\ r.error = "Route not found"
                      /\ r.message = "Cannot " \o m \o " " \o url
                   \/ /\ {"error", "status", "path", "method", "details"}
                             \subseteq r.fields
                      /\ r.error = "Route " \o url \o " not found"
                      /\ r.status = 404
                      /\ r.path = url
                      /\ r.method = m
                      /\ r.details = "Cannot " \o m \o " " \o url

\* POST /api/unknown has been answered 404 through notFound and
\* errorHandler.
C16_Witness ==
    \E s \in Slots :
        /\ req[s].pc = "done"
        /\ req[s].route = "POST /api/unknown"
        /\ req[s].responses[1].code = 404
        /\ req[s].responses[1].method = "POST"
        /\ req[s].responses[1].path = "/api/unknown"

\* GET /api/unknown has been answered 404 by the catch-all.
C16_WitnessCatchAll ==
    \E s \in Slots :
        /\ req[s].pc = "done"
        /\ req[s].route = "GET /api/unknown"
        /\ req[s].responses[1].error = "Route not found"
        /\ req[s].responses[1].message = "Cannot GET /api/unknown"

\* Number of stored user documents with email e.
EmailCount(e) ==
    Cardinality({i \in UserIds : users[i].exists /\ EmailOf(i) = e})
    + Cardinality({k \in DOMAIN accounts : accounts[k].email = e})

\* The request in slot s is an answered registration with an acceptable
\* body that collided with no stored document when it arrived.
Registered(s) ==
    /\ req[s].pc = "done"
    /\ req[s].route = "POST /api/auth/register"
    /\ req[s].validation = "ok"
    /\ validatePassword(chars(req[s].body.password)).isValid
    /\ req[s].fresh

\* C17: of two registration requests with the same email that are in
\* flight together, exactly one is answered 201 with token and public
\* profile, exactly one user document with that email is stored afterwards,
\* and the other request is answered 400 'User already exists' with details
\* naming the colliding field.
C17_OneRegistrationWins ==
    \A s \in Slots, t \in Slots :
        LET r == req[s].responses[1]
            o == req[t].responses[1]
            e == toLowerCase(req[s].body.email)
        IN  (/\ s # t
             /\ Registered(s)
             /\ Registered(t)
             /\ toLowerCase(req[t].body.email) = e) =>
                /\ EmailCount(e) = 1
                /\ (r.code = 201) # (o.code = 201)
                /\ r.code = 201 => r.fields = {"message", "token", "user"}
                /\ r.code # 201 =>
                       /\ r.code = 400
                       /\ r.error = "User already exists"
                       /\ r.details \in
                              {"A user with this email already exists",
                               "A user with this username already exists"}

\* C18: any two failed logins answered 401, whether the login name is
\* unknown or the password is wrong, have the same response: same status
\* and same body.
C18_LoginFailuresAlike ==
    \A s \in Slots, t \in Slots :
        (/\ req[s].pc = "done"
         /\ req[t].pc = "done"
         /\ req[s].route = "POST /api/auth/login"
         /\ req[t].route = "POST /api/auth/login"
         /\ req[s].validation = "ok"
         /\ req[t].validation = "ok"
         /\ req[s].responses[1].code = 401
         /\ req[t].responses[1].code = 401) =>
            req[s].responses = req[t].responses

\* C19: the handler of POST /api/auth/forgot-password changes no stored user
\* document, and for a body that passes validation it answers 200 with the
\* same message whether or not a document has the email.
C19_ForgotPasswordUniform ==
    [][\A s \in Slots :
          (/\ Stage(req[s]) = "handler"
           /\ req[s].route = "POST /api/auth/forgot-password"
           /\ req'[s] # req[s]) =>
              /\ users' = users
              /\ accounts' = accounts
              /\ req[s].validation = "ok" =>
                     /\ req'[s].pc = "done"
                     /\ req'[s].responses =
                            <<OkBody(200, ForgotPasswordMessage)>>]_vars

\* Two forgot-password requests have been answered 200 with the same body,
\* one for the email of a stored account and one for an email nobody has.
C19_Witness ==
    /\ req[1].pc = "done"
    /\ req[2].pc = "done"
    /\ req[1].route = "POST /api/auth/forgot-password"
    /\ req[2].route = "POST /api/auth/forgot-password"
    /\ req[1].body.email = "u1@x.io"
    /\ req[2].body.email = "nobody@x.io"
    /\ EmailCount("u1@x.io") = 1
    /\ EmailCount("nobody@x.io") = 0
    /\ req[1].responses[1].code = 200
    /\ req[1].responses = req[2].responses

\* ObjectId.prototype.toString
ObjectIdString ==
    [o \in {"ObjectId(64b0)", "ObjectId(64b1)"} |->
        IF o = "ObjectId(64b0)" THEN "64b0" ELSE "64b1"]

\* C20: verifyToken of the token generateToken issued for a user object
\* succeeds, and the decoded claims username, email and role equal the
\* object's fields and the decoded id is the string form of its _id (of its
\* id when it has no _id).
C20_RoundTrip ==
    \A i \in DOMAIN tdecoded :
        LET d == tdecoded[i]
        IN  /\ d.ok
            /\ d.id = IF tuser._id # "" THEN ObjectIdString[tuser._id] ELSE tuser.id
            /\ d.username = tuser.username
            /\ d.email = tuser.email
            /\ d.role = tuser.role

\* The token issued for a document with an ObjectId has been verified and
\* its claims decoded.
C20_Witness ==
    /\ Len(tdecoded) = 1
    /\ tuser._id = "ObjectId(64b0)"
    /\ tuser.username = "testuser"
    /\ tuser.email = "test@example.com"
    /\ tdecoded[1].ok
    /\ tdecoded[1].id = "64b0"
    /\ tdecoded[1].email = "test@example.com"

\* The token is one verification must refuse: not a JWT, signature not
\* matching, expired, or issued by or for somebody else.
Unacceptable(t) ==
    \/ t.text # "jwt"
    \/ ~t.sigOk
    \/ t.expired
    \/ t.iss # "mern-testing-app"
    \/ t.aud # "mern-testing-users"

\* C21: for every token that is malformed, wrongly signed (an issued token
\* with an altered byte), expired, or carrying a wrong issuer or audience,
\* verifyToken fails with the message 'Invalid token' and returns no claims.
C21_UnacceptableRejected ==
    \A i \in DOMAIN tdecoded :
        Unacceptable(rtoken) =>
            /\ ~tdecoded[i].ok
            /\ tdecoded[i].message = "Invalid token"
            /\ tdecoded[i].id = ""
            /\ tdecoded[i].username = ""
            /\ tdecoded[i].email = ""
            /\ tdecoded[i].role = ""

\* verifyToken has refused an issued token whose role claim was altered to
\* admin.
C21_Witness ==
    /\ Len(tdecoded) = 1
    /\ tuser.role = "user"
    /\ rtoken.role = "admin"
    /\ ~rtoken.sigOk
    /\ ~tdecoded[1].ok
    /\ tdecoded[1].message = "Invalid token"

\* C22: extractToken returns what follows 'Bearer ' exactly when the header
\* is present and starts with 'Bearer '; for a missing header, another
\* scheme, a wrongly cased or unspaced scheme, and a bare token it returns
\* no token.
C22_ExtractsBearerOnly ==
    \A i \in DOMAIN xtoken :
        /\ ~xheader.present => xtoken[i] = EmptyToken
        /\ xheader.present /\ xheader.prefix = "Bearer "
               => xtoken[i] = xheader.rest
        /\ xheader.present /\ xheader.prefix # "Bearer "
               => xtoken[i] = EmptyToken

\* extractToken has returned no token for a header of the Basic scheme that
\* carries an issued token.
C22_Witness ==
    /\ xheader = Header("Basic ", TokenA1)
    /\ xtoken = <<EmptyToken>>

\* The character classes a password uses, among lowercase letters, uppercase
\* letters, digits and the special characters.
ClassesUsed(password) ==
    {k \in {"lowercase", "uppercase", "digit", "special"} :
        \E i \in DOMAIN password :
            \/ k = "lowercase" /\ password[i] \in LowerCase
            \/ k = "uppercase" /\ password[i] \in UpperCase
            \/ k = "digit" /\ password[i] \in Digits
            \/ k = "special" /\ password[i] \in SpecialChars}

\* C25: calculatePasswordStrength rates as 'weak' every password that uses
\* at most one of the four character classes, the empty password and the
\* passwords of one character among them.
C25_OneClassIsWeak ==
    \A i \in DOMAIN pwdOut.strength :
        Cardinality(ClassesUsed(pwd)) <= 1 => pwdOut.strength[i] = "weak"

\* The messages of the rules a password breaks, in the order of the rules:
\* six characters, an uppercase letter, a lowercase letter, a digit.
ViolatedRules(password) ==
    LET rules ==
            <<[broken |-> Len(password) < 6,
               message |-> "Password must be at least 6 characters long"],
              [broken |-> "uppercase" \notin ClassesUsed(password),
               message |-> "Password must contain at least one uppercase letter"],
              [broken |-> "lowercase" \notin ClassesUsed(password),
               message |-> "Password must contain at least one lowercase letter"],
              [broken |-> "digit" \notin ClassesUsed(password),
               message |-> "Password must contain at least one number"]>>
        Broken(r) == r.broken
        hit == SelectSeq(rules, Broken)
    IN  [i \in DOMAIN hit |-> hit[i].message]

\* C23: a registration whose body passes the validators and whose password
\* breaks a strength rule is answered 400 by an operational error that is
\* not 'Validation Error' and whose details are exactly the messages of the
\* broken rules; it never reaches User.create, and no stored account has
\* such a password.  A password that breaks no rule is never answered so.
C23_WeakPasswordRejected ==
    /\ \A k \in DOMAIN accounts :
           ViolatedRules(chars(accounts[k].password)) = <<>>
    /\ \A s \in Slots :
           LET q == req[s]
               broken == ViolatedRules(chars(q.body.password))
               r == q.responses[1]
           IN  (q.route = "POST /api/auth/register" /\ q.validation = "ok") =>
                   /\ q.pc = "save" => broken = <<>>
                   /\ (q.pc = "done" /\ broken # <<>>) =>
                          /\ Len(q.responses) = 1
                          /\ Len(q.rejection) = 1
                          /\ q.rejection[1].isOperational
                          /\ r.code = 400
                          /\ r.status = 400
                          /\ r.error = "Password does not meet requirements"
                          /\ r.error # "Validation Error"
                          /\ "details" \in r.fields
                          /\ r.details = ArrayText(broken)
                   /\ (q.pc = "done" /\ broken = <<>>) =>
                          r.error # "Password does not meet requirements"

\* The registration with password 'abc123' has been answered 400 with the
\* message of the uppercase rule alone.
C23_Witness ==
    \E s \in Slots :
        /\ req[s].pc = "done"
        /\ req[s].route = "POST /api/auth/register"
        /\ req[s].body.password = "abc123"
        /\ req[s].responses[1].code = 400
        /\ req[s].responses[1].details =
               "Password must contain at least one uppercase letter"
        /\ accounts = <<>>

\* The outcomes a gate has had on the context are all the same.
SameOutcomes(outs) == \A i \in DOMAIN outs : outs[i] = outs[1]

\* C24: require-admin, require-role and require-ownership leave the request
\* context (identity, route parameter, roles and ownership mode) and the
\* stored records as they were, and a gate applied again to the same context
\* has the same outcome as the first time.
C24_GatesIdempotent ==
    [][/\ gctx' = gctx
       /\ users' = users
       /\ accounts' = accounts
       /\ SameOutcomes(gout'.admin)
       /\ SameOutcomes(gout'.role)
       /\ SameOutcomes(gout'.own)]_vars

\* require-ownership has let an admin through twice to the resource of
\* another account.
C24_Witness ==
    /\ gctx.user # NoUser
    /\ gctx.user.role = "admin"
    /\ gctx.userIdField = "_id"
    /\ gctx.user._id # gctx.param
    /\ Len(gout.own) = 2
    /\ gout.own[1].next
    /\ gout.own[2].next

\* C26: the step that answers a change-password request that carries a
\* valid bearer token of an active account, the account's current password
\* and a new password that breaks no strength rule answers 'Password changed
\* successfully' and stores the new password; the step that answers any
\* other change-password request leaves every stored password as it was.
C26_ChangePasswordPrivate ==
    [][\A s \in Slots :
         LET q == req[s]
             subject == Subject(q.headers)
             entitled ==
                 /\ subject \in UserIds
                 /\ ~Revoked(users, subject)
                 /\ q.body.valid
                 /\ users[subject].password = q.body.currentPassword
                 /\ ViolatedRules(chars(q.body.newPassword)) = <<>>
         IN  (/\ q.route = "POST /api/auth/change-password"
              /\ Stage(q) = "handler"
              /\ req'[s].pc = "done") =>
                 IF entitled
                 THEN /\ req'[s].responses[1].code = 200
                      /\ req'[s].responses[1].message
                             = "Password changed successfully"
                      /\ users' = [users EXCEPT ![subject].password =
                                                   q.body.newPassword]
                 ELSE users' = users]_vars

\* The viewer the header h identifies is the author of the stored post p or
\* an admin, or p is published.
MaySee(h, p) ==
    LET viewer == Subject(h)
    IN  \/ posts[p].status = "published"
        \/ /\ viewer \in UserIds
           /\ ~Revoked(users, viewer)
           /\ users[viewer].role = "admin" \/ posts[p].author = viewer

\* C27: a post that is not published is never returned to a viewer who is
\* neither its author nor an admin (anonymous viewers and viewers with an
\* invalid token included): GET /api/posts returns such viewers published
\* posts only, whatever status they ask for, and GET /api/posts/:id answers
\* them 404 'Post not found'.
C27_UnpublishedHidden ==
    \A s \in Slots :
        LET q == req[s]
        IN  (q.pc = "done"
             /\ q.route \in {"GET /api/posts", "GET /api/posts/:id"}) =>
                /\ \A p \in q.returned : MaySee(q.headers, p)
                /\ (/\ q.route = "GET /api/posts/:id"
                    /\ q.param \in PostIds
                    /\ ~MaySee(q.headers, q.param)) =>
                       /\ q.responses[1].code = 404
                       /\ q.responses[1].error = "Post not found"

\* The request in slot s is the save of a like that is about to be written.
SavesLike(s) ==
    /\ req[s].pc = "save"
    /\ req[s].route = "POST /api/posts/:id/like"
    /\ req'[s].pc = "done"
    /\ req'[s].responses[1].code = 200

\* C28: every user appears at most once in the likes of a post, so that
\* likeCount (the length of likes) is the number of distinct likers, and a
\* like that is saved toggles the user's membership in the stored likes;
\* also when like requests of the same user interleave.
C28_LikesAreASet ==
    [][/\ \A p \in PostIds :
             Len(posts'[p].likes) = Cardinality(Likers(posts'[p].likes))
       /\ \A s \in Slots :
             SavesLike(s) =>
                 LET p == req[s].param
                     u == req[s].user._id
                 IN  (u \in Likers(posts'[p].likes))
                         # (u \in Likers(posts[p].likes))]_vars

\* C29: when no read of a published post is between its load and its save,
\* the post's views are the number of reads by viewers other than the
\* author that have been answered: every such read counts once, and reads
\* by the author or of a post that is not published count nothing.
C29_ViewsCountReads ==
    \A p \in PostIds :
        (\A s \in Slots : ~(req[s].pc = "save"
                            /\ req[s].route = "GET /api/posts/:id"
                            /\ req[s].param = p)) =>
            posts[p].views = viewed[p]

\* C30: a request of an admin that names the admin's own account and asks
\* to delete it (DELETE /api/users/:id), or to store isActive as false with
\* a value the validator accepts (PUT /api/users/:id), is answered 400, and
\* the account is still present and active.
C30_NoSelfRemoval ==
    \A s \in Slots :
        LET q == req[s]
            asksRemoval ==
                \/ q.route = "DELETE /api/users/:id"
                \/ /\ q.route = "PUT /api/users/:id"
                   /\ q.validation = "ok"
                   /\ q.body.isActive \in {"false", "'false'"}
        IN  (/\ q.pc = "done"
             /\ q.handlerStarted
             /\ q.user # NoUser
             /\ q.user.role = "admin"
             /\ q.user._id = q.param
             /\ asksRemoval) =>
                /\ q.responses[1].code = 400
                /\ q.responses[1].error \in
                       {"Cannot delete your own account",
                        "Cannot deactivate your own account"}
                /\ users[q.param].exists
                /\ users[q.param].isActive

====
